---- MODULE Spec2Model ----
(***************************************************************************)
(* Formula compilation engine of Excel-To-Python: reference collection,    *)
(* dependency ordering (Kahn), drag-pattern grouping, code emission and    *)
(* the run of the emitted program.                                         *)
(*                                                                         *)
(* Formula text is a sequence of one-character strings, scanned at the     *)
(* character level as the regular expressions of the source scan it.       *)
(* Positions are 1-based here (Python position p is position p + 1).       *)
(***************************************************************************)
EXTENDS Integers, Sequences, FiniteSets, TLC

(***************************************************************************)
(* Bounds of the checked inputs.                                           *)
(***************************************************************************)
MaxRow == 3
MaxCells == 3
\* column conversions: the largest index, the longest letter string
MaxColumn == 703
MaxLetters == 2
\* the longest text handed to a text function on its own
MaxText == 5
\* the largest value of an input cell and the largest exponent of a power
\* that is evaluated
MaxValue == 3
MaxPower == 2

(***************************************************************************)
(* Characters.                                                             *)
(***************************************************************************)
Alphabet ==
  << "A", "B", "C", "D", "E", "F", "G", "H", "I", "J", "K", "L", "M",
     "N", "O", "P", "Q", "R", "S", "T", "U", "V", "W", "X", "Y", "Z" >>

LowerAlphabet ==
  << "a", "b", "c", "d", "e", "f", "g", "h", "i", "j", "k", "l", "m",
     "n", "o", "p", "q", "r", "s", "t", "u", "v", "w", "x", "y", "z" >>

Digits == << "0", "1", "2", "3", "4", "5", "6", "7", "8", "9" >>

IsUpper(ch) == \E i \in 1..26 : Alphabet[i] = ch
IsLower(ch) == \E i \in 1..26 : LowerAlphabet[i] = ch
IsAlpha(ch) == IsUpper(ch) \/ IsLower(ch)
IsDigit(ch) == \E i \in 1..10 : Digits[i] = ch
IsWord(ch) == IsAlpha(ch) \/ IsDigit(ch) \/ ch = "_"

\* str.upper() on one character
Upper(ch) ==
  IF IsLower(ch) THEN Alphabet[CHOOSE i \in 1..26 : LowerAlphabet[i] = ch]
  ELSE ch

\* ord(char) - ord('A') + 1 for an upper-case letter
Ord(ch) == CHOOSE i \in 1..26 : Alphabet[i] = ch

DigitVal(ch) == (CHOOSE i \in 1..10 : Digits[i] = ch) - 1

Quote == "\""

Max(S) == CHOOSE x \in S : \A y \in S : y <= x
Min(S) == CHOOSE x \in S : \A y \in S : x <= y

\* F(v), with v evaluated once
Bind(v, F(_)) == CHOOSE r \in {F(x) : x \in {v}} : TRUE

\* int(text) for a run of decimal digits
RECURSIVE IntFold(_, _)
IntFold(s, acc) ==
  IF s = << >> THEN acc ELSE IntFold(Tail(s), acc * 10 + DigitVal(Head(s)))

ParseInt(s) == IntFold(s, 0)

\* str(n) for n >= 0
RECURSIVE IntText(_)
IntText(n) ==
  IF n < 10 THEN << Digits[n + 1] >>
  ELSE IntText(n \div 10) \o << Digits[(n % 10) + 1] >>

(***************************************************************************)
(* Column letters <-> 1-based column index.                                *)
(***************************************************************************)
RECURSIVE ColFold(_, _)
ColFold(s, result) ==
  IF s = << >> THEN result
  ELSE ColFold(Tail(s), result * 26 + Ord(Upper(Head(s))))

col_letter_to_index(col_str) == ColFold(col_str, 0)

RECURSIVE IdxLoop(_, _)
IdxLoop(index, result) ==
  IF index > 0
  THEN IdxLoop((index - 1) \div 26,
               << Alphabet[((index - 1) % 26) + 1] >> \o result)
  ELSE result

\* the loop body taken once
index_to_col_letter_one_pass(index) ==
  << Alphabet[((index - 1) % 26) + 1] >>

index_to_col_letter(index) == IdxLoop(index, << >>)

(***************************************************************************)
(* Regular-expression pieces.                                              *)
(***************************************************************************)
\* length of the run of upper-case letters / digits / word characters
\* that starts at position i
UpperRun(s, i) ==
  Max({n \in 0..(Len(s) + 1 - i) : \A j \in i..(i + n - 1) : IsUpper(s[j])})

AlphaRun(s, i) ==
  Max({n \in 0..(Len(s) + 1 - i) : \A j \in i..(i + n - 1) : IsAlpha(s[j])})

DigitRun(s, i) ==
  Max({n \in 0..(Len(s) + 1 - i) : \A j \in i..(i + n - 1) : IsDigit(s[j])})

WordRun(s, i) ==
  Max({n \in 0..(Len(s) + 1 - i) : \A j \in i..(i + n - 1) : IsWord(s[j])})

IsAt(s, i, ch) == i >= 1 /\ i <= Len(s) /\ s[i] = ch

NoMatch ==
  [ok |-> FALSE, kind |-> "cell", ext |-> << >>, sheet |-> << >>,
   cabs |-> FALSE, col |-> << >>, rabs |-> FALSE, row |-> 0,
   ecabs |-> FALSE, ecol |-> << >>, erabs |-> FALSE, erow |-> 0,
   start |-> 0, end |-> 0]

\* \$?([A-Z]{1,3})\$?(\d+) matched at position i; end is the position
\* after the match.  anycase is TRUE for the patterns of formula_translator.py,
\* written \$?([A-Za-z]{1,3})\$?(\d{1,7}).
MatchCell(s, i, anycase) ==
  Bind(IF IsAt(s, i, "$") THEN i + 1 ELSE i, LAMBDA p1 :
  Bind(IF p1 > Len(s) + 1 THEN 0
       ELSE IF anycase THEN AlphaRun(s, p1) ELSE UpperRun(s, p1), LAMBDA n :
  Bind(IF IsAt(s, p1 + n, "$") THEN p1 + n + 1 ELSE p1 + n, LAMBDA p3 :
  Bind(IF p3 > Len(s) + 1 THEN 0 ELSE DigitRun(s, p3), LAMBDA run :
  Bind(IF anycase /\ run > 7 THEN 7 ELSE run, LAMBDA m :
    IF i >= 1 /\ i <= Len(s) /\ n >= 1 /\ n <= 3 /\ m >= 1
    THEN [NoMatch EXCEPT !.ok = TRUE, !.cabs = (p1 = i + 1),
                         !.col = SubSeq(s, p1, p1 + n - 1),
                         !.rabs = (p3 = p1 + n + 1),
                         !.row = ParseInt(SubSeq(s, p3, p3 + m - 1)),
                         !.start = i, !.end = p3 + m]
    ELSE NoMatch)))))

\* the match a of a cell, extended to a range when ":" and a cell follow
ExtendRange(s, a, anycase) ==
  Bind(IF a.ok /\ IsAt(s, a.end, ":")
       THEN MatchCell(s, a.end + 1, anycase) ELSE NoMatch, LAMBDA b :
    IF b.ok
    THEN [a EXCEPT !.kind = "range", !.ecabs = b.cabs, !.ecol = b.col,
                   !.erabs = b.rabs, !.erow = b.row, !.end = b.end]
    ELSE NoMatch)

\* cell ":" cell matched at position i
MatchRange(s, i, anycase) == ExtendRange(s, MatchCell(s, i, anycase), anycase)

\* the range pattern matched at position i, the cell pattern when the range
\* pattern does not match there
MatchRef(s, i, anycase) ==
  Bind(MatchCell(s, i, anycase), LAMBDA a :
  Bind(ExtendRange(s, a, anycase), LAMBDA r : IF r.ok THEN r ELSE a))

\* position of the first ch at or after position i, 0 when there is none
\* (str.index raises ValueError then)
IndexOf(s, ch, i) ==
  LET hits == {j \in i..Len(s) : s[j] = ch}
  IN IF hits = {} THEN 0 ELSE Min(hits)

(***************************************************************************)
(* Names and keys.  A sheet, table or column name is a character sequence. *)
(* A cell key is <<sheet, col, row>> with col the column letters, a range  *)
(* key is <<sheet, col1, row1, col2, row2>>, a table key <<name, column>>. *)
(***************************************************************************)
\* str.strip() / str.lstrip() over blanks
LeadingBlanks(s) ==
  Max({n \in 0..Len(s) : \A j \in 1..n : s[j] = " "})

LStrip(s) == SubSeq(s, LeadingBlanks(s) + 1, Len(s))

TrailingBlanks(s) ==
  Max({n \in 0..Len(s) : \A j \in (Len(s) - n + 1)..Len(s) : s[j] = " "})

Strip(s) ==
  IF LeadingBlanks(s) = Len(s) THEN << >>
  ELSE SubSeq(s, LeadingBlanks(s) + 1, Len(s) - TrailingBlanks(s))

\* formula[1:] when the formula starts with "="
StripEq(formula) ==
  IF Len(formula) >= 1 /\ formula[1] = "=" THEN Tail(formula) ELSE formula

(***************************************************************************)
(* Pieces of a translated expression.  The translated text is kept as the  *)
(* sequence of its pieces: a variable name written for a cell, a range or  *)
(* a table column, or literal text.                                        *)
(***************************************************************************)
PLit(text) ==
  [k |-> "lit", sheet |-> << >>, c1 |-> << >>, r1 |-> 0,
   c2 |-> << >>, r2 |-> 0, t |-> text]

\* cell_to_var_name(sheet, col, row)
PCell(sheet, col, row) ==
  [k |-> "cell", sheet |-> sheet, c1 |-> col, r1 |-> row,
   c2 |-> << >>, r2 |-> 0, t |-> << >>]

\* range_to_var_name(sheet, col1, row1, col2, row2)
PRange(sheet, col1, row1, col2, row2) ==
  [k |-> "range", sheet |-> sheet, c1 |-> col1, r1 |-> row1,
   c2 |-> col2, r2 |-> row2, t |-> << >>]

\* table_ref_to_var_name(table_name, column_name)
PTable(table_name, column_name) ==
  [k |-> "table", sheet |-> << >>, c1 |-> column_name, r1 |-> 0,
   c2 |-> << >>, r2 |-> 0, t |-> table_name]

\* re.sub(r'[^a-zA-Z0-9]', '_', sheet_name)
SafeSheet(sheet_name) ==
  [i \in 1..Len(sheet_name) |->
     IF IsAlpha(sheet_name[i]) \/ IsDigit(sheet_name[i]) THEN sheet_name[i]
     ELSE "_"]

\* the text of the name f"s_{safe_sheet}_{col}{row}"
cell_to_var_name(sheet_name, col, row) ==
  << "s", "_" >> \o SafeSheet(sheet_name) \o << "_" >> \o col \o IntText(row)

\* the text of the name f"rng_{safe_sheet}_{col1}{row1}_{col2}{row2}"
range_to_var_name(sheet_name, col1, row1, col2, row2) ==
  << "r", "n", "g", "_" >> \o SafeSheet(sheet_name) \o << "_" >> \o col1
    \o IntText(row1) \o << "_" >> \o col2 \o IntText(row2)

(***************************************************************************)
(* FormulaConverter.  A conversion result carries the translated pieces,   *)
(* the three referenced_* sets and err, TRUE when the conversion raised.   *)
(***************************************************************************)
NoRefs ==
  [out |-> << >>, cells |-> {}, ranges |-> {}, tables |-> {}, err |-> FALSE]

Join(a, b) ==
  [out |-> a.out \o b.out, cells |-> a.cells \cup b.cells,
   ranges |-> a.ranges \cup b.ranges, tables |-> a.tables \cup b.tables,
   err |-> a.err \/ b.err]

Raised(a) == [a EXCEPT !.err = TRUE]

Text(a, text) == [a EXCEPT !.out = @ \o << PLit(text) >>]

\* EXCEL_FUNCTION_MAP.get(func_name, "xl_" + func_name.lower()): every entry
\* of the map other than the five below has the fallback's form
LowerText(s) ==
  [i \in 1..Len(s) |-> IF IsUpper(s[i]) THEN LowerAlphabet[Ord(s[i])] ELSE s[i]]

UpperText(s) == [i \in 1..Len(s) |-> Upper(s[i])]

\* the keys of EXCEL_FUNCTION_MAP
FunctionMapKeys ==
  {<< "S", "U", "M" >>, << "A", "V", "E", "R", "A", "G", "E" >>,
   << "C", "O", "U", "N", "T" >>, << "C", "O", "U", "N", "T", "A" >>,
   << "M", "I", "N" >>, << "M", "A", "X" >>, << "I", "F" >>,
   << "A", "N", "D" >>, << "O", "R" >>, << "N", "O", "T" >>,
   << "A", "B", "S" >>, << "R", "O", "U", "N", "D" >>,
   << "R", "O", "U", "N", "D", "U", "P" >>,
   << "R", "O", "U", "N", "D", "D", "O", "W", "N" >>, << "I", "N", "T" >>,
   << "M", "O", "D" >>, << "P", "O", "W", "E", "R" >>,
   << "S", "Q", "R", "T" >>, << "L", "E", "N" >>, << "L", "E", "F", "T" >>,
   << "R", "I", "G", "H", "T" >>, << "M", "I", "D" >>,
   << "U", "P", "P", "E", "R" >>, << "L", "O", "W", "E", "R" >>,
   << "T", "R", "I", "M" >>,
   << "C", "O", "N", "C", "A", "T", "E", "N", "A", "T", "E" >>,
   << "T", "E", "X", "T" >>, << "V", "A", "L", "U", "E" >>,
   << "V", "L", "O", "O", "K", "U", "P" >>,
   << "H", "L", "O", "O", "K", "U", "P" >>, << "I", "N", "D", "E", "X" >>,
   << "M", "A", "T", "C", "H" >>, << "I", "F", "E", "R", "R", "O", "R" >>,
   << "I", "S", "B", "L", "A", "N", "K" >>, << "S", "U", "M", "I", "F" >>,
   << "S", "U", "M", "I", "F", "S" >>,
   << "C", "O", "U", "N", "T", "I", "F" >>,
   << "C", "O", "U", "N", "T", "I", "F", "S" >>,
   << "A", "V", "E", "R", "A", "G", "E", "I", "F" >>,
   << "S", "U", "M", "P", "R", "O", "D", "U", "C", "T" >>,
   << "O", "F", "F", "S", "E", "T" >>,
   << "I", "N", "D", "I", "R", "E", "C", "T" >>, << "R", "O", "W" >>,
   << "C", "O", "L", "U", "M", "N" >>, << "R", "O", "W", "S" >>,
   << "C", "O", "L", "U", "M", "N", "S" >>, << "T", "O", "D", "A", "Y" >>,
   << "N", "O", "W" >>, << "Y", "E", "A", "R" >>,
   << "M", "O", "N", "T", "H" >>, << "D", "A", "Y" >>,
   << "D", "A", "T", "E" >>, << "E", "O", "M", "O", "N", "T", "H" >>,
   << "E", "D", "A", "T", "E" >>, << "D", "A", "T", "E", "D", "I", "F" >>,
   << "P", "I" >>, << "T", "R", "U", "E" >>, << "F", "A", "L", "S", "E" >>}

PyFunc(func_name) ==
  IF func_name = << "A", "B", "S" >> THEN << "a", "b", "s" >>
  ELSE IF func_name = << "R", "O", "U", "N", "D" >>
       THEN << "r", "o", "u", "n", "d" >>
  ELSE IF func_name = << "I", "N", "T" >> THEN << "i", "n", "t" >>
  ELSE IF func_name = << "T", "R", "U", "E" >> THEN << "T", "r", "u", "e" >>
  ELSE IF func_name = << "F", "A", "L", "S", "E" >>
       THEN << "F", "a", "l", "s", "e" >>
  ELSE << "x", "l", "_" >> \o LowerText(func_name)

RECURSIVE FindParenLoop(_, _, _, _)
FindParenLoop(expr, i, depth, in_string) ==
  IF i > Len(expr) THEN Len(expr)
  ELSE IF expr[i] = Quote
       THEN FindParenLoop(expr, i + 1, depth, ~in_string)
  ELSE IF ~in_string /\ expr[i] = "("
       THEN FindParenLoop(expr, i + 1, depth + 1, in_string)
  ELSE IF ~in_string /\ expr[i] = ")"
       THEN IF depth - 1 = 0 THEN i
            ELSE FindParenLoop(expr, i + 1, depth - 1, in_string)
  ELSE FindParenLoop(expr, i + 1, depth, in_string)

\* _find_matching_paren without its in_string flag: a quote is a character
\* like any other
FindMatchingParenQuoteBlind(expr, start) ==
  FindParenLoop([k \in DOMAIN expr |-> IF expr[k] = Quote THEN "A" ELSE expr[k]],
                start + 1, 1, FALSE)

\* position of the closing parenthesis for the one at start; the last
\* position of expr when there is none
FindMatchingParen(expr, start) == FindParenLoop(expr, start + 1, 1, FALSE)

RECURSIVE SplitLoop(_, _, _, _, _, _)
SplitLoop(args_str, i, args, current, depth, in_string) ==
  IF i > Len(args_str)
  THEN LET all == IF current # << >> THEN Append(args, Strip(current))
                  ELSE args
       IN SelectSeq(all, LAMBDA a : a # << >>)
  ELSE LET c == args_str[i] IN
    IF c = Quote
    THEN SplitLoop(args_str, i + 1, args, Append(current, c), depth,
                   ~in_string)
    ELSE IF in_string
    THEN SplitLoop(args_str, i + 1, args, Append(current, c), depth,
                   in_string)
    ELSE IF c = "("
    THEN SplitLoop(args_str, i + 1, args, Append(current, c), depth + 1,
                   in_string)
    ELSE IF c = ")"
    THEN SplitLoop(args_str, i + 1, args, Append(current, c), depth - 1,
                   in_string)
    ELSE IF c = "," /\ depth = 0
    THEN SplitLoop(args_str, i + 1, Append(args, Strip(current)), << >>,
                   depth, in_string)
    ELSE SplitLoop(args_str, i + 1, args, Append(current, c), depth,
                   in_string)

SplitFunctionArgs(args_str) == SplitLoop(args_str, 1, << >>, << >>, 0, FALSE)

\* ^(\d+\.?\d*(?:[eE][+-]?\d+)?) : length of the match at position 1, or 0
NumberLen(expr) ==
  Bind(DigitRun(expr, 1), LAMBDA n1 :
  Bind(IF IsAt(expr, n1 + 1, ".") THEN n1 + 1 ELSE n1, LAMBDA d :
  Bind(IF d + 1 > Len(expr) + 1 THEN d ELSE d + DigitRun(expr, d + 1),
       LAMBDA m :
  Bind(IF IsAt(expr, m + 2, "+") \/ IsAt(expr, m + 2, "-") THEN 1 ELSE 0,
       LAMBDA sgn :
  Bind(IF (IsAt(expr, m + 1, "e") \/ IsAt(expr, m + 1, "E"))
          /\ m + 2 + sgn <= Len(expr) + 1
       THEN DigitRun(expr, m + 2 + sgn) ELSE 0, LAMBDA n3 :
    IF n1 = 0 THEN 0
    ELSE IF n3 >= 1 THEN m + 1 + sgn + n3
    ELSE m)))))

\* expr.upper().startswith(word) and the next character is not a letter
StartsWithWord(expr, word) ==
  /\ Len(expr) >= Len(word)
  /\ UpperText(SubSeq(expr, 1, Len(word))) = word
  /\ (Len(expr) = Len(word) \/ ~IsAlpha(expr[Len(word) + 1]))

\* ^(\w+)! : the sheet name, << >> when the pattern does not match
BareSheetPrefix(expr) ==
  Bind(WordRun(expr, 1), LAMBDA n :
    IF n >= 1 /\ IsAt(expr, n + 1, "!") THEN SubSeq(expr, 1, n) ELSE << >>)

\* ^'([^']+)'! : the sheet name, << >> when the pattern does not match
QuotedSheetPrefix(expr) ==
  Bind(IF IsAt(expr, 1, "'") THEN IndexOf(expr, "'", 2) ELSE 0, LAMBDA close :
    IF close > 2 /\ IsAt(expr, close + 1, "!")
    THEN SubSeq(expr, 2, close - 1) ELSE << >>)

\* the sheet prefix of a token, quoted or not, and the position of its "!"
SheetPrefix(expr) ==
  Bind(QuotedSheetPrefix(expr), LAMBDA quoted :
    IF quoted # << >> THEN [sheet |-> quoted, bang |-> Len(quoted) + 3]
    ELSE Bind(BareSheetPrefix(expr), LAMBDA bare :
           [sheet |-> bare, bang |-> Len(bare) + 1]))

\* ^(\w+)\[([^\]]*)\]
TableMatch(expr) ==
  Bind(WordRun(expr, 1), LAMBDA n :
  Bind(IF n >= 1 /\ IsAt(expr, n + 1, "[")
       THEN IndexOf(expr, "]", n + 2) ELSE 0, LAMBDA close :
    [ok |-> close > 0,
     name |-> SubSeq(expr, 1, n),
     column |-> IF close > 0 THEN SubSeq(expr, n + 2, close - 1) ELSE << >>,
     end |-> close + 1]))

\* ^([A-Z][A-Z0-9_.]*)\( with re.IGNORECASE : position of the "(", or 0
FuncParen(expr) ==
  Bind(Max({m \in 0..Len(expr) :
              \A j \in 1..m : IsWord(expr[j]) \/ expr[j] = "."}), LAMBDA n :
    IF Len(expr) >= 1 /\ IsAlpha(expr[1]) /\ IsAt(expr, n + 1, "(")
    THEN n + 1 ELSE 0)

Tok(result, consumed) == [r |-> result, consumed |-> consumed]

\* the token of a matched range or cell of a sheet: the variable name, the
\* reference recorded in referenced_ranges or referenced_cells
RefTok(sheet, m, skip) ==
  IF m.kind = "range"
  THEN Tok([NoRefs EXCEPT
              !.out = << PRange(sheet, m.col, m.row, m.ecol, m.erow) >>,
              !.ranges = {<< sheet, m.col, m.row, m.ecol, m.erow >>}],
           skip + m.end - 1)
  ELSE Tok([NoRefs EXCEPT !.out = << PCell(sheet, m.col, m.row) >>,
                          !.cells = {<< sheet, m.col, m.row >>}],
           skip + m.end - 1)

\* the token of a function call whose arguments are converted
CallTok(func_name, converted, consumed) ==
  IF func_name = << "T", "R", "U", "E" >>
  THEN Tok([converted EXCEPT !.out = << PLit(<< "T", "r", "u", "e" >>) >>],
           consumed)
  ELSE IF func_name = << "F", "A", "L", "S", "E" >>
  THEN Tok([converted EXCEPT
              !.out = << PLit(<< "F", "a", "l", "s", "e" >>) >>], consumed)
  ELSE IF func_name = << "P", "I" >>
  THEN Tok([converted EXCEPT
              !.out = << PLit(<< "x", "l", "_", "p", "i", "(", ")" >>) >>],
           consumed)
  ELSE IF func_name = << "T", "O", "D", "A", "Y" >>
          \/ func_name = << "N", "O", "W" >>
  THEN Tok([converted EXCEPT
              !.out = << PLit(PyFunc(func_name) \o << "(", ")" >>) >>],
           consumed)
  ELSE Tok([converted EXCEPT
              !.out = << PLit(PyFunc(func_name) \o << "(" >>) >> \o @
                      \o << PLit(<< ")" >>) >>],
           consumed)

RECURSIVE ConvertExpression(_, _)
RECURSIVE ConvertLoop(_, _, _, _)
RECURSIVE ParseNextToken(_, _)
RECURSIVE ConvertArgs(_, _, _)

\* [self._convert_expression(a) for a in args] joined by ", "
ConvertArgs(cx, args, n) ==
  IF n > Len(args) THEN NoRefs
  ELSE Bind(ConvertExpression(cx, args[n]), LAMBDA first :
         IF n < Len(args)
         THEN Join(Text(first, << ",", " " >>), ConvertArgs(cx, args, n + 1))
         ELSE first)

\* FormulaConverter._parse_next_token: the token and the characters consumed
ParseNextToken(cx, expr0) ==
  Bind(LeadingBlanks(expr0), LAMBDA skip :
  Bind(SubSeq(expr0, skip + 1, Len(expr0)), LAMBDA expr :
  IF expr = << >> THEN Tok(NoRefs, skip)
  ELSE Bind(NumberLen(expr), LAMBDA numlen :
  IF numlen > 0
  THEN Tok(Text(NoRefs, SubSeq(expr, 1, numlen)), skip + numlen)
  ELSE IF expr[1] = Quote
  THEN Bind(IndexOf(expr, Quote, 2), LAMBDA end :
         IF end = 0 THEN Tok(Raised(NoRefs), skip)
         ELSE Tok(Text(NoRefs, SubSeq(expr, 1, end)), skip + end))
  ELSE IF StartsWithWord(expr, << "T", "R", "U", "E" >>)
  THEN Tok(Text(NoRefs, << "T", "r", "u", "e" >>), skip + 4)
  ELSE IF StartsWithWord(expr, << "F", "A", "L", "S", "E" >>)
  THEN Tok(Text(NoRefs, << "F", "a", "l", "s", "e" >>), skip + 5)
  ELSE Bind(SheetPrefix(expr), LAMBDA pre :
  Bind(IF pre.sheet # << >> THEN MatchRef(expr, pre.bang + 1, FALSE)
       ELSE NoMatch, LAMBDA qualified :
  IF qualified.ok THEN RefTok(pre.sheet, qualified, skip)
  ELSE Bind(TableMatch(expr), LAMBDA tbl :
  IF tbl.ok /\ tbl.name \in DOMAIN cx.tables
  THEN Tok([NoRefs EXCEPT !.out = << PTable(tbl.name, tbl.column) >>,
                          !.tables = {<< tbl.name, tbl.column >>}],
           skip + tbl.end - 1)
  ELSE Bind(FuncParen(expr), LAMBDA paren_start :
  IF paren_start > 0
  THEN Bind(FindMatchingParen(expr, paren_start), LAMBDA paren_end :
         CallTok(UpperText(SubSeq(expr, 1, paren_start - 1)),
                 ConvertArgs(cx,
                             SplitFunctionArgs(SubSeq(expr, paren_start + 1,
                                                      paren_end - 1)),
                             1),
                 skip + paren_end))
  ELSE Bind(MatchRef(expr, 1, FALSE), LAMBDA local :
  IF local.ok THEN RefTok(cx.sheet, local, skip)
  ELSE Tok(Text(NoRefs, << expr[1] >>), skip + 1)))))))))

\* the while loop of FormulaConverter._convert_expression
ConvertLoop(cx, expr, i, acc) ==
  IF acc.err \/ i > Len(expr) THEN acc
  ELSE Bind(expr[i], LAMBDA c :
    IF c = Quote
    THEN Bind(IndexOf(expr, Quote, i + 1), LAMBDA end :
           IF end = 0 THEN Raised(acc)
           ELSE ConvertLoop(cx, expr, end + 1,
                            Text(acc, SubSeq(expr, i, end))))
    ELSE IF c = "&"
    THEN Bind(SubSeq(expr, i + 1, Len(expr)), LAMBDA rest :
         Bind(ParseNextToken(cx, Strip(rest)), LAMBDA tok :
           ConvertLoop(cx, expr,
                       (i + 1) + (Len(rest) - Len(Strip(rest)))
                         + tok.consumed,
                       Text(Join(Text(acc, << " ", "+", " ", "s", "t", "r",
                                              "(" >>), tok.r),
                            << ")" >>))))
    ELSE IF c = "<" /\ IsAt(expr, i + 1, ">")
    THEN ConvertLoop(cx, expr, i + 2, Text(acc, << " ", "!", "=", " " >>))
    ELSE IF c = "<" /\ IsAt(expr, i + 1, "=")
    THEN ConvertLoop(cx, expr, i + 2, Text(acc, << " ", "<", "=", " " >>))
    ELSE IF c = ">" /\ IsAt(expr, i + 1, "=")
    THEN ConvertLoop(cx, expr, i + 2, Text(acc, << " ", ">", "=", " " >>))
    ELSE IF c = "<" \/ c = ">"
    THEN ConvertLoop(cx, expr, i + 1, Text(acc, << " ", c, " " >>))
    ELSE IF c = "="
    THEN ConvertLoop(cx, expr, i + 1, Text(acc, << " ", "=", "=", " " >>))
    ELSE IF c = "^"
    THEN ConvertLoop(cx, expr, i + 1, Text(acc, << " ", "*", "*", " " >>))
    ELSE IF c = "+" \/ c = "-" \/ c = "*" \/ c = "/"
    THEN ConvertLoop(cx, expr, i + 1, Text(acc, << " ", c, " " >>))
    ELSE IF c = "("
    THEN Bind(FindMatchingParen(expr, i), LAMBDA matching :
           ConvertLoop(cx, expr, matching + 1,
                       Text(Join(Text(acc, << "(" >>),
                                 ConvertExpression(
                                   cx, SubSeq(expr, i + 1, matching - 1))),
                            << ")" >>)))
    ELSE IF c = ","
    THEN ConvertLoop(cx, expr, i + 1, Text(acc, << ",", " " >>))
    ELSE IF c = " "
    THEN ConvertLoop(cx, expr, i + 1, acc)
    ELSE IF c = "%"
    THEN ConvertLoop(cx, expr, i + 1,
                     Text(acc, << " ", "/", " ", "1", "0", "0" >>))
    ELSE Bind(ParseNextToken(cx, SubSeq(expr, i, Len(expr))), LAMBDA tok :
           ConvertLoop(cx, expr, i + tok.consumed, Join(acc, tok.r))))

\* FormulaConverter._convert_expression
ConvertExpression(cx, expr0) ==
  Bind(Strip(expr0), LAMBDA expr :
    IF expr = << >> THEN Text(NoRefs, << "'", "'" >>)
    ELSE ConvertLoop(cx, expr, 1, NoRefs))

\* FormulaConverter(current_sheet, tables).convert(formula), with the
\* referenced_cells / referenced_ranges / referenced_tables it leaves
Convert(current_sheet, tables, formula) ==
  ConvertExpression([sheet |-> current_sheet, tables |-> tables],
                    StripEq(formula))

(***************************************************************************)
(* Ordering of text (Python compares strings by code point) and of keys.   *)
(***************************************************************************)
Ascii ==
  << " ", "!", "\"", "#", "$", "%", "&", "'", "(", ")", "*", "+", ",", "-",
     ".", "/", "0", "1", "2", "3", "4", "5", "6", "7", "8", "9", ":", ";",
     "<", "=", ">", "?", "@",
     "A", "B", "C", "D", "E", "F", "G", "H", "I", "J", "K", "L", "M",
     "N", "O", "P", "Q", "R", "S", "T", "U", "V", "W", "X", "Y", "Z",
     "[", "\\", "]", "^", "_", "(backtick)",
     "a", "b", "c", "d", "e", "f", "g", "h", "i", "j", "k", "l", "m",
     "n", "o", "p", "q", "r", "s", "t", "u", "v", "w", "x", "y", "z" >>

CharCode(ch) == 31 + (CHOOSE i \in 1..Len(Ascii) : Ascii[i] = ch)

RECURSIVE TextLess(_, _)
TextLess(a, b) ==
  IF b = << >> THEN FALSE
  ELSE IF a = << >> THEN TRUE
  ELSE IF Head(a) = Head(b) THEN TextLess(Tail(a), Tail(b))
  ELSE CharCode(Head(a)) < CharCode(Head(b))

\* the sequence of the elements of the finite set S in the order Less
SortBy(S, Less(_, _)) ==
  [i \in 1..Cardinality(S) |->
     CHOOSE x \in S : Cardinality({y \in S : Less(y, x)}) = i - 1]

\* every sequence that lists each element of the finite set S once
Perms(S) ==
  {p \in [1..Cardinality(S) -> S] : \A x \in S : \E i \in DOMAIN p : p[i] = x}

Range(seq) == {seq[i] : i \in DOMAIN seq}

IndexIn(seq, x) == CHOOSE i \in DOMAIN seq : seq[i] = x

(***************************************************************************)
(* excel_to_python.py: build_dependency_order.                             *)
(* A formula cell is [sheet, col, row, formula, value]; value is the       *)
(* cached result read from the workbook, -1 when there is none.            *)
(***************************************************************************)
CellKey(fc) == << fc.sheet, fc.col, fc.row >>

\* the cells of a range key, row by row
ExpandRange(rng) ==
  {<< rng[1], index_to_col_letter(c), r >> :
     r \in rng[3]..rng[5],
     c \in col_letter_to_index(rng[2])..col_letter_to_index(rng[4])}

\* cell_deps of one formula cell: referenced cells and expanded ranges
CellDeps(conv) ==
  conv.cells \cup UNION {ExpandRange(rng) : rng \in conv.ranges}

\* the while loop of the Kahn algorithm over a list queue: reverse_deps[d]
\* lists each dependent of d once
RECURSIVE KahnLoop(_, _, _, _)
KahnLoop(queue, in_degree, ordered, reverse_deps) ==
  IF queue = << >> THEN ordered
  ELSE LET node == Head(queue)
           nbrs == reverse_deps[node]
           deg == [k \in DOMAIN in_degree |->
                     IF k \in Range(nbrs) THEN in_degree[k] - 1
                     ELSE in_degree[k]]
           ready == SelectSeq(nbrs, LAMBDA k : deg[k] = 0)
       IN KahnLoop(Tail(queue) \o ready, deg, Append(ordered, node),
                   reverse_deps)

\* the first loop of build_dependency_order: deps, the cells each formula
\* cell reads; raised is TRUE when a conversion raised
DependencyMap(formula_cells, tables) ==
  Bind([i \in DOMAIN formula_cells |->
          Convert(formula_cells[i].sheet, tables, formula_cells[i].formula)],
       LAMBDA conv :
    [raised |-> \E i \in DOMAIN conv : conv[i].err,
     deps |-> [k \in {CellKey(formula_cells[i]) : i \in DOMAIN formula_cells}
                 |-> CellDeps(conv[CHOOSE i \in DOMAIN formula_cells :
                                     CellKey(formula_cells[i]) = k])]])

\* OrderFromDeps with the in-degree counting every dependency, not only the
\* formula cells among them
OrderFromDepsAllDeps(keys, deps, iter) ==
  LET all_keys == Range(keys)
      in_degree == [k \in all_keys |-> Cardinality(deps[k])]
      reverse_deps == [d \in all_keys |->
                         SelectSeq(keys, LAMBDA k : d \in deps[k])]
      queue == SelectSeq(iter, LAMBDA k : in_degree[k] = 0)
      ordered == KahnLoop(queue, in_degree, << >>, reverse_deps)
      leftover == SelectSeq(iter, LAMBDA k : k \notin Range(ordered))
  IN [order |-> ordered \o leftover, circular |-> leftover]

\* the rest of build_dependency_order, with iter the order in which the
\* set all_keys is iterated: the keys of the returned formula cells
OrderFromDeps(keys, deps, iter) ==
  LET all_keys == Range(keys)
      in_degree == [k \in all_keys |-> Cardinality(deps[k] \cap all_keys)]
      reverse_deps == [d \in all_keys |->
                         SelectSeq(keys, LAMBDA k : d \in deps[k])]
      queue == SelectSeq(iter, LAMBDA k : in_degree[k] = 0)
      ordered == KahnLoop(queue, in_degree, << >>, reverse_deps)
      leftover == SelectSeq(iter, LAMBDA k : k \notin Range(ordered))
  IN [order |-> ordered \o leftover, circular |-> leftover]

\* find_all_references(formula_cells, tables): the three sets gathered over
\* every formula; raised is TRUE when a conversion raised
find_all_references(formula_cells, tables) ==
  Bind([i \in DOMAIN formula_cells |->
          Convert(formula_cells[i].sheet, tables, formula_cells[i].formula)],
       LAMBDA conv :
    [raised |-> \E i \in DOMAIN conv : conv[i].err,
     cells |-> UNION {conv[i].cells : i \in DOMAIN conv},
     ranges |-> UNION {conv[i].ranges : i \in DOMAIN conv},
     tables |-> UNION {conv[i].tables : i \in DOMAIN conv}])

\* expand_ranges_to_cells(referenced_ranges)
expand_ranges_to_cells(referenced_ranges) ==
  UNION {ExpandRange(rng) : rng \in referenced_ranges}

\* the data cells of a table column, {} when the table has no such column
TableColumnCells(tables, ref) ==
  IF ref[1] \in DOMAIN tables /\ ref[2] \in Range(tables[ref[1]].columns)
  THEN Bind(tables[ref[1]], LAMBDA tbl :
       Bind(index_to_col_letter(col_letter_to_index(tbl.col_start)
                                + IndexIn(tbl.columns, ref[2]) - 1),
            LAMBDA col_abs :
         {<< tbl.sheet, col_abs, r >> :
            r \in tbl.data_start_row..tbl.data_end_row}))
  ELSE {}

\* filter_hardcoded_cells that leaves the ranges unexpanded
filter_hardcoded_cells_no_ranges(hardcoded_cells, referenced_cells, referenced_ranges, referenced_tables, tables, delete_unreferenced) ==
  IF ~delete_unreferenced THEN hardcoded_cells
  ELSE Bind(referenced_cells
              \cup UNION {TableColumnCells(tables, ref) :
                            ref \in referenced_tables},
            LAMBDA all_referenced :
         SelectSeq(hardcoded_cells, LAMBDA key : key \in all_referenced))

\* filter_hardcoded_cells: the hardcoded cells are listed by their keys
filter_hardcoded_cells(hardcoded_cells, referenced_cells, referenced_ranges, referenced_tables, tables, delete_unreferenced) ==
  IF ~delete_unreferenced THEN hardcoded_cells
  ELSE Bind(referenced_cells
              \cup expand_ranges_to_cells(referenced_ranges)
              \cup UNION {TableColumnCells(tables, ref) :
                            ref \in referenced_tables},
            LAMBDA all_referenced :
         SelectSeq(hardcoded_cells, LAMBDA key : key \in all_referenced))

(***************************************************************************)
(* offlineopus: formula_translator.extract_cell_references,                *)
(* dependency_graph.build_dependency_graph and topological_sort.           *)
(* Keys of this pipeline are <<sheet, row, col>> with col the 1-based      *)
(* column index; its formulas carry no leading "=".                        *)
(***************************************************************************)
\* (?:'([^']+)'|([A-Za-z_][\w ]*))\!  cell  (?::cell)?   matched at i
OpusSheetRef(s, i) ==
  Bind(IF IsAt(s, i, "'") THEN IndexOf(s, "'", i + 1) ELSE 0, LAMBDA close :
  Bind(IF i <= Len(s) /\ (IsAlpha(s[i]) \/ s[i] = "_")
       THEN Max({m \in 0..(Len(s) - i) :
                   \A j \in (i + 1)..(i + m) : IsWord(s[j]) \/ s[j] = " "})
       ELSE 0, LAMBDA n :
  Bind(close > i + 1 /\ IsAt(s, close + 1, "!"), LAMBDA quoted :
  Bind(i <= Len(s) /\ (IsAlpha(s[i]) \/ s[i] = "_")
       /\ IsAt(s, i + n + 1, "!"), LAMBDA bare :
  Bind(IF quoted \/ bare
       THEN MatchRef(s, (IF quoted THEN close + 1 ELSE i + n + 1) + 1, TRUE)
       ELSE NoMatch, LAMBDA m :
    IF ~m.ok THEN NoMatch
    ELSE [m EXCEPT !.sheet = IF quoted THEN SubSeq(s, i + 1, close - 1)
                             ELSE SubSeq(s, i, i + n),
                   !.start = i])))))

OpusMatch(s, i, pattern) ==
  IF pattern = "sheet" THEN OpusSheetRef(s, i)
  ELSE IF pattern = "range" THEN MatchRange(s, i, TRUE)
  ELSE MatchCell(s, i, TRUE)

\* re.finditer(pattern, s): the matches from position i on, left to right
RECURSIVE OpusFindAll(_, _, _)
OpusFindAll(s, i, pattern) ==
  IF i > Len(s) THEN << >>
  ELSE Bind(OpusMatch(s, i, pattern), LAMBDA m :
         IF m.ok THEN << m >> \o OpusFindAll(s, m.end, pattern)
         ELSE OpusFindAll(s, i + 1, pattern))

\* re.sub(pattern, "###", s)
RECURSIVE OpusSubAll(_, _, _)
OpusSubAll(s, i, pattern) ==
  IF i > Len(s) THEN << >>
  ELSE Bind(OpusMatch(s, i, pattern), LAMBDA m :
         IF m.ok THEN << "#", "#", "#" >> \o OpusSubAll(s, m.end, pattern)
         ELSE << s[i] >> \o OpusSubAll(s, i + 1, pattern))

\* the (sheet, row, col) keys one match contributes
OpusKeys(m, sheet) ==
  IF m.kind = "range"
  THEN {<< sheet, r, c >> :
          r \in m.row..m.erow,
          c \in col_letter_to_index(m.col)..col_letter_to_index(m.ecol)}
  ELSE {<< sheet, m.row, col_letter_to_index(m.col) >>}

\* extract_cell_references(formula, current_sheet), as the set of its entries
extract_cell_references(formula, current_sheet) ==
  Bind(OpusFindAll(formula, 1, "sheet"), LAMBDA qualified :
  Bind(OpusSubAll(formula, 1, "sheet"), LAMBDA remaining :
  Bind(OpusFindAll(remaining, 1, "range"), LAMBDA ranges :
  Bind(OpusSubAll(remaining, 1, "range"), LAMBDA remaining2 :
  Bind(SelectSeq(OpusFindAll(remaining2, 1, "cell"),
                 LAMBDA m : ~(m.start > 1
                              /\ IsAlpha(remaining2[m.start - 1]))),
       LAMBDA cells :
    UNION {OpusKeys(qualified[j], qualified[j].sheet) :
             j \in DOMAIN qualified}
    \cup UNION {OpusKeys(ranges[j], current_sheet) : j \in DOMAIN ranges}
    \cup UNION {OpusKeys(cells[j], current_sheet) : j \in DOMAIN cells})))))

OpusKey(fc) == << fc.sheet, fc.row, col_letter_to_index(fc.col) >>

\* build_dependency_graph: adjacency over the formula cells that have text
build_dependency_graph(formula_cells) ==
  [k \in {OpusKey(formula_cells[i]) : i \in DOMAIN formula_cells} |->
     LET fc == formula_cells[CHOOSE i \in DOMAIN formula_cells :
                               OpusKey(formula_cells[i]) = k]
     IN IF Tail(fc.formula) # << >>
        THEN extract_cell_references(Tail(fc.formula), fc.sheet)
        ELSE {}]

\* the while loop of topological_sort; iter is the order in which the set
\* formula_cells is iterated
RECURSIVE TopoLoop(_, _, _, _, _, _)
TopoLoop(queue, in_degree, visited, sorted_cells, adjacency, iter) ==
  IF queue = << >> THEN sorted_cells
  ELSE LET cell == Head(queue) IN
    IF cell \in visited
    THEN TopoLoop(Tail(queue), in_degree, visited, sorted_cells, adjacency,
                  iter)
    ELSE LET seen == visited \cup {cell}
             deg == [d \in DOMAIN in_degree |->
                       IF cell \in adjacency[d] THEN in_degree[d] - 1
                       ELSE in_degree[d]]
             ready == SelectSeq(iter, LAMBDA d : /\ cell \in adjacency[d]
                                                 /\ deg[d] <= 0
                                                 /\ d \notin seen)
         IN TopoLoop(Tail(queue) \o ready, deg, seen,
                     Append(sorted_cells, cell), adjacency, iter)

\* sorted(remaining, key=lambda x: (x[0], x[1], x[2]))
OpusKeyLess(a, b) ==
  \/ TextLess(a[1], b[1])
  \/ a[1] = b[1] /\ a[2] < b[2]
  \/ a[1] = b[1] /\ a[2] = b[2] /\ a[3] < b[3]

\* topological_sort without the extension by the remaining cells
topological_sort_no_remaining(adjacency, iter) ==
  LET formula_cells == DOMAIN adjacency
      in_degree == [cell \in formula_cells |->
                      Cardinality(adjacency[cell] \cap formula_cells)]
      queue == SelectSeq(iter, LAMBDA cell : in_degree[cell] = 0)
      sorted_cells == TopoLoop(queue, in_degree, {}, << >>, adjacency, iter)
      remaining == formula_cells \ Range(sorted_cells)
  IN [raised |-> FALSE, order |-> sorted_cells, sorted |-> sorted_cells,
      circular |-> << >>, warned |-> Cardinality(remaining)]

\* topological_sort: the returned order, and the warning it logs (the
\* number of remaining cells, 0 when it logs none)
topological_sort(adjacency, iter) ==
  LET formula_cells == DOMAIN adjacency
      in_degree == [cell \in formula_cells |->
                      Cardinality(adjacency[cell] \cap formula_cells)]
      queue == SelectSeq(iter, LAMBDA cell : in_degree[cell] = 0)
      sorted_cells == TopoLoop(queue, in_degree, {}, << >>, adjacency, iter)
      remaining == formula_cells \ Range(sorted_cells)
      remaining_sorted == SortBy(remaining, OpusKeyLess)
  IN [raised |-> FALSE, order |-> sorted_cells \o remaining_sorted,
      sorted |-> sorted_cells, circular |-> remaining_sorted,
      warned |-> Cardinality(remaining)]

(***************************************************************************)
(* excel_to_python_vectorized/vectorizer.py: extract_references.           *)
(* A Reference is a match record: kind, ext (external_file, << >> for      *)
(* None), sheet, the absolute flags, the coordinates and the span          *)
(* start..end-1.                                                           *)
(***************************************************************************)
\* '?\[([^\]]+)\]([^'!]+)'?!  matched at i: the position after the "!",
\* the file and the sheet
ExtPrefix(s, i) ==
  LET p == IF IsAt(s, i, "'") THEN i + 1 ELSE i
      close == IF IsAt(s, p, "[") THEN IndexOf(s, "]", p + 1) ELSE 0
      n == IF close > p + 1
           THEN Max({m \in 0..(Len(s) - close) :
                       \A j \in (close + 1)..(close + m) :
                          s[j] # "'" /\ s[j] # "!"})
           ELSE 0
      q == IF IsAt(s, close + n + 1, "'") THEN close + n + 2
           ELSE close + n + 1
  IN IF close > p + 1 /\ n >= 1 /\ IsAt(s, q, "!")
     THEN [ok |-> TRUE, ext |-> SubSeq(s, p + 1, close - 1),
           sheet |-> SubSeq(s, close + 1, close + n), after |-> q + 1]
     ELSE [ok |-> FALSE, ext |-> << >>, sheet |-> << >>, after |-> 0]

\* (?:'([^'\[\]]+)'|([A-Za-z_]\w*))!  matched at i
IntPrefix(s, i) ==
  LET stop == IF IsAt(s, i, "'")
              THEN Min({j \in (i + 1)..(Len(s) + 1) :
                          j = Len(s) + 1 \/ s[j] = "'" \/ s[j] = "["
                          \/ s[j] = "]"})
              ELSE 0
      quoted == stop > i + 1 /\ IsAt(s, stop, "'") /\ IsAt(s, stop + 1, "!")
      n == IF i <= Len(s) /\ (IsAlpha(s[i]) \/ s[i] = "_")
           THEN 1 + WordRun(s, i + 1) ELSE 0
      bare == n >= 1 /\ IsAt(s, i + n, "!")
  IN IF quoted
     THEN [ok |-> TRUE, ext |-> << >>, sheet |-> SubSeq(s, i + 1, stop - 1),
           after |-> stop + 2]
     ELSE IF bare
     THEN [ok |-> TRUE, ext |-> << >>, sheet |-> SubSeq(s, i, i + n - 1),
           after |-> i + n + 1]
     ELSE [ok |-> FALSE, ext |-> << >>, sheet |-> << >>, after |-> 0]

\* one of the six compiled patterns matched at position i
RefMatch(s, i, pattern, current_sheet) ==
  Bind(IF pattern = "ext_range" \/ pattern = "ext_cell"
       THEN ExtPrefix(s, i)
       ELSE IF pattern = "int_range" \/ pattern = "int_cell"
       THEN IntPrefix(s, i)
       ELSE [ok |-> TRUE, ext |-> << >>, sheet |-> current_sheet,
             after |-> i], LAMBDA pre :
  Bind(IF ~pre.ok THEN NoMatch
       ELSE IF pattern = "ext_range" \/ pattern = "int_range"
               \/ pattern = "local_range"
       THEN MatchRange(s, pre.after, FALSE)
       ELSE MatchCell(s, pre.after, FALSE), LAMBDA m :
    IF m.ok THEN [m EXCEPT !.ext = pre.ext, !.sheet = pre.sheet, !.start = i]
    ELSE NoMatch))

\* pattern.finditer(formula)
RECURSIVE RefFindAll(_, _, _, _)
RefFindAll(s, i, pattern, current_sheet) ==
  IF i > Len(s) THEN << >>
  ELSE Bind(RefMatch(s, i, pattern, current_sheet), LAMBDA m :
         IF m.ok
         THEN << m >> \o RefFindAll(s, m.end, pattern, current_sheet)
         ELSE RefFindAll(s, i + 1, pattern, current_sheet))

\* _in_string(formula, pos), pos a 1-based position
RECURSIVE InStringLoop(_, _, _, _)
InStringLoop(formula, pos, i, in_str) ==
  IF ~(i < pos) THEN in_str
  ELSE IF formula[i] = Quote
  THEN IF in_str /\ i + 1 <= Len(formula) /\ formula[i + 1] = Quote
       THEN InStringLoop(formula, pos, i + 2, in_str)
       ELSE InStringLoop(formula, pos, i + 1, ~in_str)
  ELSE InStringLoop(formula, pos, i + 1, in_str)

InString(formula, pos) == InStringLoop(formula, pos, 1, FALSE)

Span(m) == m.start..(m.end - 1)

\* the matches of one pattern kept when claimed spans are not looked at
ClaimedOverlapping(formula, pattern, current_sheet, occupied) ==
  SelectSeq(RefFindAll(formula, 1, pattern, current_sheet),
            LAMBDA m :
              /\ ~InString(formula, m.start)
              /\ (pattern = "local_range" \/ pattern = "local_cell")
                   => ~(m.start > 1 /\ (IsAlpha(formula[m.start - 1])
                                        \/ formula[m.start - 1] = "_")))

\* the matches of one pattern that are kept, given the occupied positions
Claimed(formula, pattern, current_sheet, occupied) ==
  SelectSeq(RefFindAll(formula, 1, pattern, current_sheet),
            LAMBDA m :
              /\ ~InString(formula, m.start)
              /\ Span(m) \cap occupied = {}
              /\ (pattern = "local_range" \/ pattern = "local_cell")
                   => ~(m.start > 1 /\ (IsAlpha(formula[m.start - 1])
                                        \/ formula[m.start - 1] = "_")))

SpansOf(refs) == UNION {Span(refs[j]) : j \in DOMAIN refs}

\* the references claimed so far, and those the next pattern adds
ClaimMore(formula, pattern, current_sheet, refs) ==
  refs \o Claimed(formula, pattern, current_sheet, SpansOf(refs))

\* extract_references(formula, current_sheet): the references by start (the
\* sort is stable)
extract_references(formula0, current_sheet) ==
  Bind(StripEq(formula0), LAMBDA formula :
  Bind(ClaimMore(formula, "ext_range", current_sheet, << >>), LAMBDA r1 :
  Bind(ClaimMore(formula, "ext_cell", current_sheet, r1), LAMBDA r2 :
  Bind(ClaimMore(formula, "int_range", current_sheet, r2), LAMBDA r3 :
  Bind(ClaimMore(formula, "int_cell", current_sheet, r3), LAMBDA r4 :
  Bind(ClaimMore(formula, "local_range", current_sheet, r4), LAMBDA r5 :
  Bind(ClaimMore(formula, "local_cell", current_sheet, r5), LAMBDA refs :
  Bind(SortBy(DOMAIN refs,
              LAMBDA a, b : \/ refs[a].start < refs[b].start
                            \/ refs[a].start = refs[b].start /\ a < b),
       LAMBDA idx : [k \in DOMAIN idx |-> refs[idx[k]]]))))))))

(***************************************************************************)
(* vectorizer.py: compute_pattern, group_formulas, order_items.            *)
(***************************************************************************)
\* ("abs", value) or ("rel", offset) of one axis
AbsPart(name, n) == [mode |-> "abs", name |-> name, n |-> n]
RelPart(offset) == [mode |-> "rel", name |-> << >>, n |-> offset]

\* the descriptor compute_pattern appends for one reference; sheet_part and
\* ext are << >> for None
RefTokenRowBlind(ref, current_sheet, cell_col_idx, cell_row) ==
  LET sheet_part == IF ref.sheet # current_sheet \/ ref.ext # << >>
                    THEN ref.sheet ELSE << >>
      col_part == IF ref.cabs THEN AbsPart(ref.col, 0)
                  ELSE RelPart(col_letter_to_index(ref.col) - cell_col_idx)
      row_part == IF ref.rabs THEN AbsPart(<< >>, ref.row)
                  ELSE RelPart(0)
      ecol_part == IF ref.kind = "cell" THEN RelPart(0)
                   ELSE IF ref.ecabs THEN AbsPart(ref.ecol, 0)
                   ELSE RelPart(col_letter_to_index(ref.ecol) - cell_col_idx)
      erow_part == IF ref.kind = "cell" THEN RelPart(0)
                   ELSE IF ref.erabs THEN AbsPart(<< >>, ref.erow)
                   ELSE RelPart(ref.erow - cell_row)
  IN [kind |-> ref.kind, ext |-> ref.ext, sheet_part |-> sheet_part,
      sc |-> col_part, sr |-> row_part, ec |-> ecol_part, er |-> erow_part]

RefToken(ref, current_sheet, cell_col_idx, cell_row) ==
  LET sheet_part == IF ref.sheet # current_sheet \/ ref.ext # << >>
                    THEN ref.sheet ELSE << >>
      col_part == IF ref.cabs THEN AbsPart(ref.col, 0)
                  ELSE RelPart(col_letter_to_index(ref.col) - cell_col_idx)
      row_part == IF ref.rabs THEN AbsPart(<< >>, ref.row)
                  ELSE RelPart(ref.row - cell_row)
      ecol_part == IF ref.kind = "cell" THEN RelPart(0)
                   ELSE IF ref.ecabs THEN AbsPart(ref.ecol, 0)
                   ELSE RelPart(col_letter_to_index(ref.ecol) - cell_col_idx)
      erow_part == IF ref.kind = "cell" THEN RelPart(0)
                   ELSE IF ref.erabs THEN AbsPart(<< >>, ref.erow)
                   ELSE RelPart(ref.erow - cell_row)
  IN [kind |-> ref.kind, ext |-> ref.ext, sheet_part |-> sheet_part,
      sc |-> col_part, sr |-> row_part, ec |-> ecol_part, er |-> erow_part]

\* the skeleton: the spans replaced by "@idx", last reference first
RECURSIVE SkeletonLoop(_, _, _)
SkeletonLoop(skeleton, refs, n) ==
  IF n = 0 THEN skeleton
  ELSE SkeletonLoop(SubSeq(skeleton, 1, refs[n].start - 1)
                      \o << "@" >> \o IntText(n - 1)
                      \o SubSeq(skeleton, refs[n].end, Len(skeleton)),
                    refs, n - 1)

\* compute_pattern(formula, current_sheet, cell_col_idx, cell_row): the key
compute_pattern(formula, current_sheet, cell_col_idx, cell_row) ==
  Bind(extract_references(formula, current_sheet), LAMBDA refs :
    << SkeletonLoop(StripEq(formula), refs, Len(refs)),
       [j \in DOMAIN refs |->
          RefToken(refs[j], current_sheet, cell_col_idx, cell_row)] >>)

\* cp["pattern_key"] of a formula cell
PatternKey(fc) ==
  << fc.sheet,
     compute_pattern(fc.formula, fc.sheet, col_letter_to_index(fc.col),
                     fc.row) >>

\* the elements of seq at their first occurrence, in order
FirstSeen(seq) ==
  LET keep == {i \in DOMAIN seq : \A j \in 1..(i - 1) : seq[j] # seq[i]}
      idx == SortBy(keep, LAMBDA a, b : a < b)
  IN [j \in DOMAIN idx |-> seq[idx[j]]]

\* list.sort(key=...) of a list of formula cells with distinct keys
SortCells(cells, Key(_)) ==
  LET idx == SortBy(DOMAIN cells,
                    LAMBDA a, b : Key(cells[a]) < Key(cells[b]))
  IN [j \in DOMAIN idx |-> cells[idx[j]]]

\* _find_contiguous_runs(cells, lambda a, b: key(b) - key(a) == 1), for the
\* sequence nums of the keys: the runs as <<first, last>> positions
RECURSIVE RunsLoop(_, _, _)
RunsLoop(nums, j, runs) ==
  IF j > Len(nums) THEN runs
  ELSE IF nums[j] - nums[j - 1] = 1
  THEN RunsLoop(nums, j + 1,
                [runs EXCEPT ![Len(runs)] = << runs[Len(runs)][1], j >>])
  ELSE RunsLoop(nums, j + 1, Append(runs, << j, j >>))

FindContiguousRuns(nums) ==
  IF nums = << >> THEN << >> ELSE RunsLoop(nums, 2, << << 1, 1 >> >>)

RECURSIVE Concat(_)
Concat(seqs) == IF seqs = << >> THEN << >> ELSE Head(seqs) \o Concat(Tail(seqs))

\* RunGroups that cuts every run after its second cell
RunGroupsCut(line, nums, direction) ==
  LET runs == SelectSeq(FindContiguousRuns(nums),
                        LAMBDA run : run[2] - run[1] + 1 >= 2)
  IN [j \in DOMAIN runs |->
        [cells |-> SubSeq(line, runs[j][1], runs[j][1] + 1),
         direction |-> direction]]

\* the groups of length >= 2 that the runs of one sorted list give
RunGroups(line, nums, direction) ==
  LET runs == SelectSeq(FindContiguousRuns(nums),
                        LAMBDA run : run[2] - run[1] + 1 >= 2)
  IN [j \in DOMAIN runs |->
        [cells |-> SubSeq(line, runs[j][1], runs[j][2]),
         direction |-> direction]]

ColIdx(fc) == col_letter_to_index(fc.col)
RowOf(fc) == fc.row

\* the vertical groups of a bucket: per column, the runs of adjacent rows
VerticalGroups(cells) ==
  Bind(FirstSeen([j \in DOMAIN cells |-> cells[j].col]), LAMBDA cols :
    Concat([c \in DOMAIN cols |->
              Bind(SortCells(SelectSeq(cells, LAMBDA fc : fc.col = cols[c]),
                             RowOf), LAMBDA col_cells :
                RunGroups(col_cells,
                          [j \in DOMAIN col_cells |-> col_cells[j].row],
                          "vertical"))]))

\* the horizontal groups of what remains: per row, the runs of adjacent
\* columns
HorizontalGroups(remaining) ==
  Bind(FirstSeen([j \in DOMAIN remaining |-> remaining[j].row]), LAMBDA rows :
    Concat([r \in DOMAIN rows |->
              Bind(SortCells(SelectSeq(remaining,
                                       LAMBDA fc : fc.row = rows[r]),
                             ColIdx), LAMBDA row_cells :
                RunGroups(row_cells,
                          [j \in DOMAIN row_cells |-> ColIdx(row_cells[j])],
                          "horizontal"))]))

\* the keys added to used for a list of groups
UsedBy(grps) ==
  UNION {{CellKey(fc) : fc \in Range(grps[g].cells)} : g \in DOMAIN grps}

\* BucketGroups without marking the cells of the horizontal runs as used
BucketGroupsUnmarked(cells) ==
  IF Len(cells) < 2 THEN [groups |-> << >>, singles |-> << cells[1] >>]
  ELSE
  Bind(VerticalGroups(cells), LAMBDA vertical :
  Bind(UsedBy(vertical), LAMBDA used1 :
  Bind(HorizontalGroups(SelectSeq(cells,
                                  LAMBDA fc : CellKey(fc) \notin used1)),
       LAMBDA horizontal :
    [groups |-> vertical \o horizontal,
     singles |-> SelectSeq(cells, LAMBDA fc : CellKey(fc) \notin used1)])))

\* the body of the loop over buckets, for the cells of one bucket
BucketGroups(cells) ==
  IF Len(cells) < 2 THEN [groups |-> << >>, singles |-> << cells[1] >>]
  ELSE
  Bind(VerticalGroups(cells), LAMBDA vertical :
  Bind(UsedBy(vertical), LAMBDA used1 :
  Bind(HorizontalGroups(SelectSeq(cells,
                                  LAMBDA fc : CellKey(fc) \notin used1)),
       LAMBDA horizontal :
  Bind(used1 \cup UsedBy(horizontal), LAMBDA used2 :
    [groups |-> vertical \o horizontal,
     singles |-> SelectSeq(cells, LAMBDA fc : CellKey(fc) \notin used2)]))))

\* the list cell_pats of group_formulas: the pattern key and the references
\* compute_pattern returns for each formula cell
CellPats(formula_cells) ==
  [i \in DOMAIN formula_cells |->
     [pattern_key |-> PatternKey(formula_cells[i]),
      refs |-> extract_references(formula_cells[i].formula,
                                  formula_cells[i].sheet)]]

\* group_formulas(formula_cells): compute_pattern raises for no formula
\* text, so no_pattern stays empty
group_formulas(formula_cells) ==
  Bind(CellPats(formula_cells), LAMBDA cell_pats :
  Bind([i \in DOMAIN formula_cells |-> cell_pats[i].pattern_key],
       LAMBDA pats :
  Bind(FirstSeen(pats), LAMBDA pkeys :
  Bind([b \in DOMAIN pkeys |->
          Bind(SortBy({i \in DOMAIN formula_cells : pats[i] = pkeys[b]},
                      LAMBDA x, y : x < y), LAMBDA idx :
            BucketGroups([j \in DOMAIN idx |-> formula_cells[idx[j]]]))],
       LAMBDA per :
    [cell_pats |-> cell_pats,
     groups |-> Concat([b \in DOMAIN per |-> per[b].groups]),
     singles |-> Concat([b \in DOMAIN per |-> per[b].singles])]))))

\* a single as an item: its one cell, direction "single"
SingleItem(fc) == [cells |-> << fc >>, direction |-> "single"]

\* _cells_produced(item)
CellsProduced(item) == {CellKey(fc) : fc \in Range(item.cells)}

\* the conversions _cells_needed(item, tables) runs
ItemConversions(item, tables) ==
  [j \in DOMAIN item.cells |->
     Convert(item.cells[j].sheet, tables, item.cells[j].formula)]

\* _cells_needed(item, tables), from the conversions it ran
CellsNeeded(conversions) ==
  UNION {CellDeps(conversions[j]) : j \in DOMAIN conversions}

RECURSIVE ItemKahnLoop(_, _, _, _)
ItemKahnLoop(queue, in_deg, ordered, fwd) ==
  IF queue = << >> THEN ordered
  ELSE Bind([k \in DOMAIN in_deg |->
               IF k \in Range(fwd[Head(queue)]) THEN in_deg[k] - 1
               ELSE in_deg[k]], LAMBDA deg :
         ItemKahnLoop(Tail(queue)
                        \o SelectSeq(fwd[Head(queue)], LAMBDA nb : deg[nb] = 0),
                      deg, Append(ordered, Head(queue)), fwd))

\* the rest of order_items, from the cells each item needs; the circular
\* leftovers are a set of ints below 8, which CPython iterates in ascending
\* order
OrderFromNeeds(items, needed) ==
  Bind([cell \in UNION {CellsProduced(items[i]) : i \in DOMAIN items} |->
          Max({i \in DOMAIN items : cell \in CellsProduced(items[i])})],
       LAMBDA producer :
  Bind([idx \in DOMAIN items |->
          {producer[cell] :
             cell \in ((needed[idx] \ CellsProduced(items[idx]))
                       \cap DOMAIN producer)} \ {idx}], LAMBDA dep_indices :
  Bind(ItemKahnLoop(
         SortBy({i \in DOMAIN items : dep_indices[i] = {}},
                LAMBDA a, b : a < b),
         [idx \in DOMAIN items |-> Cardinality(dep_indices[idx])],
         << >>,
         [pi \in DOMAIN items |->
            SortBy({idx \in DOMAIN items : pi \in dep_indices[idx]},
                   LAMBDA a, b : a < b)]), LAMBDA ordered :
  Bind(SortBy(DOMAIN items \ Range(ordered), LAMBDA a, b : a < b),
       LAMBDA remaining :
    [raised |-> FALSE,
     items |-> [j \in 1..Len(items) |->
                  items[(ordered \o remaining)[j]]],
     circular |-> [j \in DOMAIN remaining |-> items[remaining[j]]]]))))

\* order_items(groups, singles, tables)
order_items(groups, singles, tables) ==
  Bind(groups \o [j \in DOMAIN singles |-> SingleItem(singles[j])],
       LAMBDA items :
  Bind([i \in DOMAIN items |-> ItemConversions(items[i], tables)],
       LAMBDA conversions :
    IF \E i \in DOMAIN items : \E j \in DOMAIN conversions[i] :
          conversions[i][j].err
    THEN [raised |-> TRUE, items |-> << >>, circular |-> << >>]
    ELSE OrderFromNeeds(items,
                        [i \in DOMAIN items |->
                           CellsNeeded(conversions[i])])))

(***************************************************************************)
(* excel_to_python_vectorized/code_generator.py: the emitted expressions.  *)
(* A coordinate of an emitted access is a literal or the loop variable     *)
(* plus an offset.  An emitted expression is the sequence of the converted *)
(* pieces with each variable name replaced by its access; the text         *)
(* replacement acts piece by piece because no variable name written for    *)
(* the checked workbooks occurs inside another piece.                      *)
(***************************************************************************)
LitCol(col) == [var |-> "", off |-> 0, lit |-> col]
LitRow(row) == [var |-> "", off |-> row, lit |-> << >>]

\* _row_expr(var, offset): var, var + offset or var - (-offset)
row_expr(var, offset) == [var |-> var, off |-> offset, lit |-> << >>]

\* _col_expr(var, offset): _cl(var), _cl(var + offset) or _cl(var - ...)
col_expr(var, offset) == [var |-> var, off |-> offset, lit |-> << >>]

\* c.get((sheet, col, row))
Get(sheet, col, row) ==
  [k |-> "get", sheet |-> sheet, c1 |-> col, r1 |-> row,
   c2 |-> col, r2 |-> row, t |-> << >>]

\* _rng(c, sheet, c1, r1, c2, r2)
Rng(sheet, c1, r1, c2, r2) ==
  [k |-> "rng", sheet |-> sheet, c1 |-> c1, r1 |-> r1,
   c2 |-> c2, r2 |-> r2, t |-> << >>]

\* text that is not an access: literal text, or a variable name that no
\* replacement matched (k = "name")
Plain(k, text) ==
  [k |-> k, sheet |-> << >>, c1 |-> LitCol(<< >>), r1 |-> LitRow(0),
   c2 |-> LitCol(<< >>), r2 |-> LitRow(0), t |-> text]

\* the replacement of a table column variable: the list comprehension over
\* the data rows (k = "tbl") when the table has the column, else the name
\* stays
TableAccess(piece, tables) ==
  LET tbl == tables[piece.t]
      ci == IndexIn(tbl.columns, piece.c1) - 1
      abs_col == index_to_col_letter(col_letter_to_index(tbl.col_start) + ci)
  IN IF piece.t \in DOMAIN tables /\ piece.c1 \in Range(tables[piece.t].columns)
     THEN [Rng(tbl.sheet, LitCol(abs_col), LitRow(tbl.data_start_row),
               LitCol(abs_col), LitRow(tbl.data_end_row))
             EXCEPT !.k = "tbl"]
     ELSE Plain("name", piece.t \o << "[" >> \o piece.c1 \o << "]" >>)

\* _find_cell_ref(refs_abs, sheet, col, row): the first match, or NoMatch
find_cell_ref(refs_abs, sheet, col, row) ==
  LET hits == SelectSeq(refs_abs,
                        LAMBDA r : /\ r.kind = "cell" /\ r.sheet = sheet
                                   /\ r.col = col /\ r.row = row)
  IN IF hits = << >> THEN NoMatch ELSE hits[1]

\* _find_range_ref(refs_abs, sheet, c1, r1, c2, r2)
find_range_ref(refs_abs, sheet, c1, r1, c2, r2) ==
  LET hits == SelectSeq(refs_abs,
                        LAMBDA r : /\ r.kind = "range" /\ r.sheet = sheet
                                   /\ r.col = c1 /\ r.row = r1
                                   /\ r.ecol = c2 /\ r.erow = r2)
  IN IF hits = << >> THEN NoMatch ELSE hits[1]

\* _expr_to_dict(py_expr, converter, tables)
expr_to_dict(conv, tables) ==
  [j \in DOMAIN conv.out |->
     LET p == conv.out[j] IN
     CASE p.k = "range" ->
            Rng(p.sheet, LitCol(p.c1), LitRow(p.r1), LitCol(p.c2),
                LitRow(p.r2))
       [] p.k = "table" -> TableAccess(p, tables)
       [] p.k = "cell" -> Get(p.sheet, LitCol(p.c1), LitRow(p.r1))
       [] OTHER -> Plain("lit", p.t)]

\* _vec_expr_vertical(py_expr, converter, refs_abs, tables, base_col_idx,
\* base_row, current_sheet)
vec_expr_vertical(conv, refs_abs, tables, base_col_idx, base_row) ==
  [j \in DOMAIN conv.out |->
     LET p == conv.out[j] IN
     CASE p.k = "range" ->
            LET ri == find_range_ref(refs_abs, p.sheet, p.c1, p.r1, p.c2,
                                     p.r2)
            IN Rng(p.sheet, LitCol(p.c1),
                   IF ri.ok /\ ri.rabs THEN LitRow(p.r1)
                   ELSE row_expr("_r", p.r1 - base_row),
                   LitCol(p.c2),
                   IF ri.ok /\ ri.erabs THEN LitRow(p.r2)
                   ELSE row_expr("_r", p.r2 - base_row))
       [] p.k = "table" -> TableAccess(p, tables)
       [] p.k = "cell" ->
            LET ri == find_cell_ref(refs_abs, p.sheet, p.c1, p.r1)
            IN Get(p.sheet, LitCol(p.c1),
                   IF ri.ok /\ ri.rabs THEN LitRow(p.r1)
                   ELSE row_expr("_r", p.r1 - base_row))
       [] OTHER -> Plain("lit", p.t)]

\* _vec_expr_horizontal(py_expr, converter, refs_abs, tables, base_col_idx,
\* base_row, current_sheet)
vec_expr_horizontal(conv, refs_abs, tables, base_col_idx, base_row) ==
  [j \in DOMAIN conv.out |->
     LET p == conv.out[j] IN
     CASE p.k = "range" ->
            LET ri == find_range_ref(refs_abs, p.sheet, p.c1, p.r1, p.c2,
                                     p.r2)
            IN Rng(p.sheet,
                   IF ri.ok /\ ri.cabs THEN LitCol(p.c1)
                   ELSE col_expr("_ci",
                                 col_letter_to_index(p.c1) - base_col_idx),
                   LitRow(p.r1),
                   IF ri.ok /\ ri.ecabs THEN LitCol(p.c2)
                   ELSE col_expr("_ci",
                                 col_letter_to_index(p.c2) - base_col_idx),
                   LitRow(p.r2))
       [] p.k = "table" -> TableAccess(p, tables)
       [] p.k = "cell" ->
            LET ri == find_cell_ref(refs_abs, p.sheet, p.c1, p.r1)
            IN Get(p.sheet,
                   IF ri.ok /\ ri.cabs THEN LitCol(p.c1)
                   ELSE col_expr("_ci",
                                 col_letter_to_index(p.c1) - base_col_idx),
                   LitRow(p.r1))
       [] OTHER -> Plain("lit", p.t)]

(***************************************************************************)
(* The emitted compute sections.  A statement is one guarded assignment    *)
(* or one loop of guarded assignments: the target coordinates, the loop    *)
(* values, the rebuild lines written before the try (excel_to_python.py    *)
(* only), the expression and what the except branch assigns.               *)
(***************************************************************************)
\* _compact_range_repr(nums): range(lo, stop) for consecutive ints, else
\* the list itself
\* compact_range_repr with the last number as the stop of the range
compact_range_repr_to_last(nums) ==
  IF Len(nums) >= 2
     /\ \A j \in DOMAIN nums : nums[j] = nums[1] + j - 1
  THEN [compact |-> TRUE, lo |-> nums[1], stop |-> nums[Len(nums)],
        list |-> << >>]
  ELSE [compact |-> FALSE, lo |-> 0, stop |-> 0, list |-> nums]

compact_range_repr(nums) ==
  IF Len(nums) >= 2
     /\ \A j \in DOMAIN nums : nums[j] = nums[1] + j - 1
  THEN [compact |-> TRUE, lo |-> nums[1], stop |-> nums[Len(nums)] + 1,
        list |-> << >>]
  ELSE [compact |-> FALSE, lo |-> 0, stop |-> 0, list |-> nums]

\* the values the emitted loop header iterates over, in order
LoopValues(loop) ==
  IF loop.compact THEN [j \in 1..(loop.stop - loop.lo) |-> loop.lo + j - 1]
  ELSE loop.list

NoLoop == compact_range_repr(<< >>)

\* the cells of a table column that the table builder lists
TableCells(tables, ref) ==
  LET tbl == tables[ref[1]]
      ci == IndexIn(tbl.columns, ref[2]) - 1
      abs_col == index_to_col_letter(col_letter_to_index(tbl.col_start) + ci)
  IN IF ref[1] \in DOMAIN tables /\ ref[2] \in Range(tables[ref[1]].columns)
     THEN {<< tbl.sheet, abs_col, r >> :
             r \in tbl.data_start_row..tbl.data_end_row}
     ELSE {}

\* generate_python_script: the lines emitted for one ordered formula cell;
\* a rebuild calls _build_<name>, defined for every range and for the table
\* columns the table has
PlainStatement(fc, tables) ==
  Bind(Convert(fc.sheet, tables, fc.formula), LAMBDA conv :
    [kind |-> "assign", sheet |-> fc.sheet, col |-> LitCol(fc.col),
     row |-> LitRow(fc.row), loop |-> NoLoop,
     rebuilds |->
       {[name |-> rng, defined |-> TRUE, cells |-> ExpandRange(rng)] :
          rng \in conv.ranges}
       \cup {[name |-> ref,
              defined |-> ref[2] \in Range(tables[ref[1]].columns),
              cells |-> TableCells(tables, ref)] : ref \in conv.tables},
     expr |-> conv.out, fallback |-> "None"])

\* _emit_single(item, tables)
emit_single(item, tables) ==
  LET fc == item.cells[1]
      conv == Convert(fc.sheet, tables, fc.formula)
  IN [kind |-> "assign", sheet |-> fc.sheet, col |-> LitCol(fc.col),
      row |-> LitRow(fc.row), loop |-> NoLoop, rebuilds |-> {},
      expr |-> expr_to_dict(conv, tables), fallback |-> "None"]

\* _emit_group(group, tables)
emit_group(group, tables) ==
  Bind(group.cells, LAMBDA cells :
  Bind(Convert(cells[1].sheet, tables, cells[1].formula), LAMBDA conv :
  Bind(extract_references(cells[1].formula, cells[1].sheet),
       LAMBDA refs_abs :
    IF group.direction = "vertical"
    THEN [kind |-> "for_r", sheet |-> cells[1].sheet,
          col |-> LitCol(cells[1].col), row |-> row_expr("_r", 0),
          loop |-> compact_range_repr([j \in DOMAIN cells |-> cells[j].row]),
          rebuilds |-> {},
          expr |-> vec_expr_vertical(conv, refs_abs, tables,
                                     col_letter_to_index(cells[1].col),
                                     cells[1].row),
          fallback |-> "None"]
    ELSE [kind |-> "for_ci", sheet |-> cells[1].sheet,
          col |-> col_expr("_ci", 0), row |-> LitRow(cells[1].row),
          loop |-> compact_range_repr(
                     [j \in DOMAIN cells |->
                        col_letter_to_index(cells[j].col)]),
          rebuilds |-> {},
          expr |-> vec_expr_horizontal(conv, refs_abs, tables,
                                       col_letter_to_index(cells[1].col),
                                       cells[1].row),
          fallback |-> "None"])))

\* _compute_section(ordered_items, tables, formula_cells)
compute_section(ordered_items, tables) ==
  [j \in DOMAIN ordered_items |->
     IF ordered_items[j].direction = "single"
     THEN emit_single(ordered_items[j], tables)
     ELSE emit_group(ordered_items[j], tables)]

\* generate_calculator: the guarded assignment of one formula cell; the
\* translated text is not modelled, the except branch assigns the cached
\* value when the workbook had one and 0 otherwise
OpusStatement(fc) ==
  [kind |-> "assign", sheet |-> fc.sheet, col |-> LitCol(fc.col),
   row |-> LitRow(fc.row), loop |-> NoLoop, rebuilds |-> {},
   expr |-> << >>, fallback |-> IF fc.value # -1 THEN "cached" ELSE "zero"]

\* the value of an emitted coordinate when the loop variable is idx
RowAt(coord, idx) == IF coord.var = "" THEN coord.off ELSE idx + coord.off
ColAt(coord, idx) ==
  IF coord.var = "" THEN coord.lit ELSE index_to_col_letter(idx + coord.off)

\* the key a statement assigns when the loop variable is idx
TargetAt(st, idx) == << st.sheet, ColAt(st.col, idx), RowAt(st.row, idx) >>

\* the keys an emitted expression looks up when the loop variable is idx:
\* c.get of a cell, and every cell _rng or a table list walks over
ReadsAt(expr, idx) ==
  UNION {LET a == expr[j] IN
         IF a.k \in {"get", "rng", "tbl"}
         THEN {<< a.sheet, index_to_col_letter(c), r >> :
                 c \in col_letter_to_index(ColAt(a.c1, idx))
                         ..col_letter_to_index(ColAt(a.c2, idx)),
                 r \in RowAt(a.r1, idx)..RowAt(a.r2, idx)}
         ELSE {} : j \in DOMAIN expr}

(***************************************************************************)
(* excel_to_mapping: the group rows of the mapping report (mapper.py) and  *)
(* their expansion (regenerator.py).                                       *)
(***************************************************************************)
\* raw.find(sub) as a 1-based position, 0 when sub does not occur
Find(raw, sub) ==
  IF \E p \in 1..(Len(raw) - Len(sub) + 1) :
        SubSeq(raw, p, p + Len(sub) - 1) = sub
  THEN Min({p \in 1..(Len(raw) - Len(sub) + 1) :
              SubSeq(raw, p, p + Len(sub) - 1) = sub})
  ELSE 0

\* raw.endswith(sub)
EndsWith(raw, sub) ==
  /\ Len(raw) >= Len(sub)
  /\ SubSeq(raw, Len(raw) - Len(sub) + 1, Len(raw)) = sub

\* f"{'$' if col_abs else ''}{col}{'$' if row_abs else ''}{row}"
CellText(col_abs, col, row_abs, row) ==
  (IF col_abs THEN << "$" >> ELSE << >>) \o col
    \o (IF row_abs THEN << "$" >> ELSE << >>) \o IntText(row)

\* the column index and the row of a corner after the shift
ShiftedCol(is_abs, col, col_offset) ==
  col_letter_to_index(col) + (IF is_abs THEN 0 ELSE col_offset)

ShiftedRow(is_abs, row, row_offset) == row + (IF is_abs THEN 0 ELSE row_offset)

\* the shift leaves the sheet: the reference is skipped
OffSheet(ref, row_offset, col_offset) ==
  \/ ShiftedCol(ref.cabs, ref.col, col_offset) < 1
  \/ ShiftedRow(ref.rabs, ref.row, row_offset) < 1
  \/ /\ ref.kind = "range"
     /\ \/ ShiftedCol(ref.ecabs, ref.ecol, col_offset) < 1
        \/ ShiftedRow(ref.erabs, ref.erow, row_offset) < 1

\* sheet_prefix: what stands in raw before the cell portion (a cell), or
\* before the first occurrence of the start cell (a range)
SheetPrefixOf(ref, raw) ==
  IF ref.kind = "cell"
  THEN IF EndsWith(raw, CellText(ref.cabs, ref.col, ref.rabs, ref.row))
       THEN SubSeq(raw, 1, Len(raw)
                             - Len(CellText(ref.cabs, ref.col, ref.rabs,
                                            ref.row)))
       ELSE << >>
  ELSE IF Find(raw, CellText(ref.cabs, ref.col, ref.rabs, ref.row)) > 1
       THEN SubSeq(raw, 1, Find(raw, CellText(ref.cabs, ref.col, ref.rabs,
                                              ref.row)) - 1)
       ELSE << >>

\* replacement: the sheet prefix and the shifted reference
ShiftedText(ref, raw, row_offset, col_offset) ==
  SheetPrefixOf(ref, raw)
    \o CellText(ref.cabs,
                index_to_col_letter(ShiftedCol(ref.cabs, ref.col, col_offset)),
                ref.rabs, ShiftedRow(ref.rabs, ref.row, row_offset))
    \o (IF ref.kind = "cell" THEN << >>
        ELSE << ":" >>
               \o CellText(ref.ecabs,
                           index_to_col_letter(
                             ShiftedCol(ref.ecabs, ref.ecol, col_offset)),
                           ref.erabs,
                           ShiftedRow(ref.erabs, ref.erow, row_offset)))

\* the loop of _shift_formula over the references, the last one first
RECURSIVE ShiftLoop(_, _, _, _, _)
ShiftLoop(body, refs, n, row_offset, col_offset) ==
  IF n = 0 THEN body
  ELSE IF OffSheet(refs[n], row_offset, col_offset)
  THEN ShiftLoop(body, refs, n - 1, row_offset, col_offset)
  ELSE ShiftLoop(SubSeq(body, 1, refs[n].start - 1)
                   \o ShiftedText(refs[n],
                                  SubSeq(body, refs[n].start, refs[n].end - 1),
                                  row_offset, col_offset)
                   \o SubSeq(body, refs[n].end, Len(body)),
                 refs, n - 1, row_offset, col_offset)

\* _shift_formula(formula, current_sheet, row_offset, col_offset)
ShiftFormula(formula, current_sheet, row_offset, col_offset) ==
  IF row_offset = 0 /\ col_offset = 0 THEN formula
  ELSE Bind(extract_references(formula, current_sheet), LAMBDA refs :
         IF refs = << >> THEN formula
         ELSE (IF IsAt(formula, 1, "=") THEN << "=" >> ELSE << >>)
                \o ShiftLoop(StripEq(formula), refs, Len(refs), row_offset,
                             col_offset))

\* the row _build_sheet_rows appends for a group: the range of its cells
\* and the formula of its first cell
GroupRow(g) ==
  [Sheet |-> g.cells[1].sheet,
   Cell |-> g.cells[1].col \o IntText(g.cells[1].row) \o << ":" >>
              \o (IF g.direction = "vertical" THEN g.cells[1].col
                  ELSE g.cells[Len(g.cells)].col)
              \o IntText(IF g.direction = "vertical"
                         THEN g.cells[Len(g.cells)].row ELSE g.cells[1].row),
   Formula |-> g.cells[1].formula,
   GroupDirection |-> g.direction]

\* re.match(r"([A-Z]+)(\d+):([A-Z]+)(\d+)", cell_range): the four groups
RangeMatch(cell_range) ==
  Bind(UpperRun(cell_range, 1), LAMBDA n1 :
  Bind(DigitRun(cell_range, 1 + n1), LAMBDA d1 :
  Bind(UpperRun(cell_range, 2 + n1 + d1), LAMBDA n2 :
  Bind(DigitRun(cell_range, 2 + n1 + d1 + n2), LAMBDA d2 :
    [ok |-> /\ n1 >= 1 /\ d1 >= 1 /\ n2 >= 1 /\ d2 >= 1
            /\ IsAt(cell_range, 1 + n1 + d1, ":"),
     start_col |-> SubSeq(cell_range, 1, n1),
     start_row |-> ParseInt(SubSeq(cell_range, 1 + n1, n1 + d1)),
     end_col |-> SubSeq(cell_range, 2 + n1 + d1, 1 + n1 + d1 + n2),
     end_row |-> ParseInt(SubSeq(cell_range, 2 + n1 + d1 + n2,
                                 1 + n1 + d1 + n2 + d2))]))))

\* _expand_group(row_dict): the (cell_address, formula) pairs of the group
ExpandGroup(row_dict) ==
  Bind(RangeMatch(row_dict.Cell), LAMBDA m :
    IF ~m.ok THEN << << row_dict.Cell, row_dict.Formula >> >>
    ELSE IF row_dict.GroupDirection = "vertical"
    THEN [k \in 1..(m.end_row - m.start_row + 1) |->
            << m.start_col \o IntText(m.start_row + k - 1),
               ShiftFormula(row_dict.Formula, row_dict.Sheet, k - 1, 0) >>]
    ELSE [k \in 1..(col_letter_to_index(m.end_col)
                      - col_letter_to_index(m.start_col) + 1) |->
            << index_to_col_letter(col_letter_to_index(m.start_col) + k - 1)
                 \o IntText(m.start_row),
               ShiftFormula(row_dict.Formula, row_dict.Sheet, 0, k - 1) >>])

(***************************************************************************)
(* The checked workbooks: one sheet S with columns A..C.  classify_cells   *)
(* lists the formula cells row by row; hardcoded holds the keys of the     *)
(* cells loaded with a value; a cell in neither is blank.  The first row   *)
(* of a workbook was never calculated (no cached value, -1).               *)
(***************************************************************************)
Sh == << "S" >>
ColA == << "A" >>
ColB == << "B" >>
ColC == << "C" >>

Ref(col, row) == col \o IntText(row)

FormulaCell(col, row, formula) ==
  [sheet |-> Sh, col |-> col, row |-> row, formula |-> formula,
   value |-> IF row = 1 THEN -1 ELSE row]

Book(cells, loaded, tbls) ==
  [formula_cells |-> cells, hardcoded |-> loaded, tables |-> tbls]

NoTables == << >>

\* the table T over B1:B<MaxRow>, header X in row 1
TableT ==
  << "T" >> :> [sheet |-> Sh, columns |-> << << "X" >> >>, col_start |-> ColB,
                data_start_row |-> 2, data_end_row |-> MaxRow]

ColumnOf(col) == {<< Sh, col, r >> : r \in 1..MaxRow}

Above(r) == IF r = 1 THEN MaxRow ELSE r - 1
Below(r) == IF r = MaxRow THEN 1 ELSE r + 1

\* what a cell of column A may hold: a reference to the cell above, to
\* itself, to the cell below (wrapping around), to the data beside it, or
\* to both the cell above and the cell below
ColumnMenu(r) ==
  << << "=" >> \o Ref(ColA, Above(r)) \o << "+", "1" >>,
     << "=" >> \o Ref(ColA, r) \o << "+", "1" >>,
     << "=" >> \o Ref(ColA, Below(r)) \o << "+", "1" >>,
     << "=" >> \o Ref(ColB, r) \o << "*", "2" >>,
     << "=" >> \o Ref(ColA, Above(r)) \o << "+" >> \o Ref(ColA, Below(r)) >>

\* column A filled with formulas over data in column B
ColumnBooks ==
  {Book([r \in 1..MaxRow |-> FormulaCell(ColA, r, ColumnMenu(r)[f[r]])],
        ColumnOf(ColB), NoTables) :
     f \in [1..MaxRow -> 1..5]}

\* a total over a calculated table column: by range, by table column, by a
\* table item the table has no column for, or a range with a blank cell
TotalMenu ==
  << << "=", "S", "U", "M", "(" >> \o Ref(ColB, 2) \o << ":" >>
       \o Ref(ColB, MaxRow) \o << ")" >>,
     << "=", "S", "U", "M", "(", "T", "[", "X", "]", ")" >>,
     << "=", "S", "U", "M", "(", "T", "[", "#", "A", "l", "l", "]", ")" >>,
     << "=", "S", "U", "M", "(" >> \o Ref(ColA, 2) \o << ":" >>
       \o Ref(ColA, MaxRow + 1) \o << ")" >> >>

CalcMenu(r) ==
  << << "=" >> \o Ref(ColA, r) \o << "*", "2" >>,
     << "=" >> \o Ref(ColA, r) \o << "+", "1" >> >>

CalcMenuB(r) ==
  << << "=" >> \o Ref(ColB, r) \o << "*", "2" >>,
     << "=" >> \o Ref(ColB, r) \o << "+", "1" >> >>

\* the table column B2..B<MaxRow> calculated from column A, and its total
\* either in A1 or under the table
TotalBooks ==
  {LET calc == [j \in 1..(MaxRow - 1) |->
                  FormulaCell(ColB, j + 1, CalcMenu(j + 1)[f[j + 1]])]
       loaded == {<< Sh, ColB, 1 >>} \cup {<< Sh, ColA, r >> : r \in 2..MaxRow}
   IN IF top
      THEN Book(<< FormulaCell(ColA, 1, TotalMenu[t]) >> \o calc, loaded,
                TableT)
      ELSE Book(calc \o << FormulaCell(ColB, MaxRow + 1, TotalMenu[t]) >>,
                loaded, TableT) :
     f \in [2..MaxRow -> 1..2], t \in 1..4, top \in BOOLEAN}

\* what a cell of the calculated table column may hold: twice the input
\* beside it, or a formula over the total in A1
LoopMenu(r) ==
  << << "=" >> \o Ref(ColA, r) \o << "*", "2" >>,
     << "=" >> \o Ref(ColA, 1) \o << "*", "2" >>,
     << "=" >> \o Ref(ColA, 1) \o << "+", "1" >> >>

\* the total of the table column in A1, by range or by table column, over
\* a column whose cells may read the total
LoopBooks ==
  {Book(<< FormulaCell(ColA, 1, TotalMenu[t]) >>
          \o [j \in 1..(MaxRow - 1) |->
                FormulaCell(ColB, j + 1, LoopMenu(j + 1)[f[j + 1]])],
        {<< Sh, ColB, 1 >>} \cup {<< Sh, ColA, r >> : r \in 2..MaxRow},
        TableT) :
     f \in [2..MaxRow -> 1..3], t \in 1..2}

\* what B2 may hold when it is calculated from column A or from B1
WeaveMenu ==
  << << "=" >> \o Ref(ColA, 1) \o << "+", "1" >>,
     << "=" >> \o Ref(ColA, 1) \o << "*", "2" >>,
     << "=" >> \o Ref(ColA, 2) \o << "+", "1" >>,
     << "=" >> \o Ref(ColA, MaxRow) \o << "+", "1" >>,
     << "=" >> \o Ref(ColB, 1) \o << "+", "1" >> >>

\* column A calculated from column B row by row, and B2 calculated too
WeaveBooks ==
  {Book([r \in 1..2 |-> FormulaCell(ColA, r, CalcMenuB(r)[f[r]])]
          \o << FormulaCell(ColB, 2, WeaveMenu[w]) >>
          \o [j \in 1..(MaxRow - 2) |->
                FormulaCell(ColA, j + 2, CalcMenuB(j + 2)[f[j + 2]])],
        ColumnOf(ColB) \ {<< Sh, ColB, 2 >>}, NoTables) :
     f \in [1..MaxRow -> 1..2], w \in DOMAIN WeaveMenu}

\* what a cell of column B may hold in a mapped workbook: a formula over
\* column A of its own sheet, named or not, over a range of the sheet
\* DATA1, or over an anchored cell or range
MappedMenu(r) ==
  << << "=" >> \o Ref(ColA, r) \o << "*", "2" >>,
     << "=" >> \o Sh \o << "!" >> \o Ref(ColA, r) \o << "*", "2" >>,
     << "=", "S", "U", "M", "(", "D", "A", "T", "A", "1", "!" >>
       \o Ref(ColA, r) \o << ":" >> \o Ref(ColA, r + 1) \o << ")" >>,
     << "=", "$", "A", "$", "1", "+" >> \o Ref(ColA, r),
     << "=", "S", "U", "M", "(", "$", "A", "$", "1", ":" >> \o Ref(ColA, r)
       \o << ")" >> >>

MappedBooks ==
  {Book([r \in 1..MaxRow |-> FormulaCell(ColB, r, MappedMenu(r)[f[r]])],
        ColumnOf(ColA), NoTables) :
     f \in [1..MaxRow -> DOMAIN MappedMenu(1)]}

LeftOf(col) == index_to_col_letter(col_letter_to_index(col) - 1)

\* one formula dragged over a block: the anchor plus the left neighbour, a
\* running total from the anchor, or twice the cell below
DragMenu(col, r) ==
  << << "=", "$", "A", "$", "1", "+" >> \o Ref(LeftOf(col), r),
     << "=", "S", "U", "M", "(", "$", "A", "$", "1", ":" >>
       \o Ref(LeftOf(col), r) \o << ")" >>,
     << "=" >> \o Ref(col, r + 1) \o << "*", "2" >> >>

\* the positions of the block B1:C<MaxRow>, row by row
BlockPositions ==
  [j \in 1..(2 * MaxRow) |->
     << IF j % 2 = 1 THEN ColB ELSE ColC, (j + 1) \div 2 >>]

DragBooks ==
  {LET picked == SelectSeq(BlockPositions, LAMBDA pos : pos \in chosen)
   IN Book([j \in DOMAIN picked |->
              FormulaCell(picked[j][1], picked[j][2],
                          DragMenu(picked[j][1], picked[j][2])[d])],
           ColumnOf(ColA), NoTables) :
     chosen \in {c \in SUBSET Range(BlockPositions) :
                   Cardinality(c) \in 1..MaxCells},
     d \in 1..3}

\* formulas with an unterminated string or unbalanced parentheses
MalformedMenu ==
  << << "=", "\"", "a", "b", "c" >>,
     << "=" >> \o Ref(ColB, 1) \o << "&", "\"", "x" >>,
     << "=", "(" >> \o Ref(ColB, 1),
     << "=" >> \o Ref(ColB, 1) \o << ")" >>,
     << "=", "S", "U", "M", "(" >> \o Ref(ColB, 1) \o << ":" >>
       \o Ref(ColB, 2) >>

MalformedBooks ==
  {Book(<< FormulaCell(ColA, 1, MalformedMenu[m]),
           FormulaCell(ColA, 2, ColumnMenu(2)[4]) >>,
        ColumnOf(ColB), NoTables) :
     m \in DOMAIN MalformedMenu}

\* calls of functions: two the map has, two it does not have
FunctionMenu(r) ==
  << << "=", "A", "B", "S", "(" >> \o Ref(ColA, r) \o << ")" >>,
     << "=", "S", "U", "M", "(" >> \o Ref(ColA, 1) \o << ":" >>
       \o Ref(ColA, r) \o << ")" >>,
     << "=", "L", "O", "G", "1", "0", "(" >> \o Ref(ColA, r) \o << ")" >>,
     << "=", "S", "I", "G", "N", "(" >> \o Ref(ColA, r) \o << ")", "*",
        "R", "O", "U", "N", "D", "(" >> \o Ref(ColA, r) \o << ",", "0", ")" >> >>

FunctionBooks ==
  {Book(<< FormulaCell(ColB, 1, FunctionMenu(1)[f]),
           FormulaCell(ColB, 2, FunctionMenu(2)[g]) >>,
        ColumnOf(ColA), NoTables) :
     f \in 1..4, g \in 1..4}

\* the table T over the input column A1:A<MaxRow>, header X in row 1
InputTable ==
  << "T" >> :> [sheet |-> Sh, columns |-> << << "X" >> >>, col_start |-> ColA,
                data_start_row |-> 2, data_end_row |-> MaxRow]

ColD == << "D" >>

\* formulas over the inputs of columns A and D: a table column, a table
\* item that is no column, a range of inputs, one input, the header beside
\* a string that names an input, a range that is only partly input
FilterMenu(r) ==
  << << "=", "S", "U", "M", "(", "T", "[", "X", "]", ")" >>,
     << "=", "S", "U", "M", "(", "T", "[", "#", "A", "l", "l", "]", ")" >>,
     << "=", "S", "U", "M", "(" >> \o Ref(ColD, 1) \o << ":" >>
       \o Ref(ColD, 2) \o << ")" >>,
     << "=" >> \o Ref(ColD, r) \o << "*", "2" >>,
     << "=" >> \o Ref(ColA, 1) \o << "&", "\"" >> \o Ref(ColD, MaxRow)
       \o << "\"" >>,
     << "=", "S", "U", "M", "(" >> \o Ref(ColC, r) \o << ":" >>
       \o Ref(ColD, r) \o << ")" >> >>

FilterBooks ==
  {Book(<< FormulaCell(ColB, 1, FilterMenu(1)[f]),
           FormulaCell(ColB, 2, FilterMenu(2)[g]) >>,
        ColumnOf(ColA) \cup ColumnOf(ColD), InputTable) :
     f \in 1..6, g \in 1..6}

\* one formula dragged over B1:D1 and down to B2: a column pair and a row
\* pair that meet in B1
CornerBooks ==
  {Book(<< FormulaCell(ColB, 1, DragMenu(ColB, 1)[d]),
           FormulaCell(ColC, 1, DragMenu(ColC, 1)[d]),
           FormulaCell(ColD, 1, DragMenu(ColD, 1)[d]),
           FormulaCell(ColB, 2, DragMenu(ColB, 2)[d]) >>,
        ColumnOf(ColA), NoTables) :
     d \in 1..3}

\* names and calls around cell-like text: a defined name that ends like a
\* cell after an underscore, after a digit, after letters; such a name
\* before a range; a function whose name reads like a cell; plain
\* references
TokenMenu ==
  << << "=", "T", "A", "X", "_", "A", "1", "*", "2" >>,
     << "=", "R", "A", "T", "E", "2", "B", "3", "*", "2" >>,
     << "=", "S", "U", "M", "(", "X", "_", "A", "1", ":", "B", "2", ")" >>,
     << "=", "T", "A", "X", "A", "1", "+", "A", "1" >>,
     << "=", "A", "1", "+", "B", "2" >>,
     << "=", "L", "O", "G", "1", "0", "(", "A", "1", ")" >>,
     << "=", "l", "o", "g", "1", "0", "(", "A", "1", ")", "+", "B", "1" >>,
     << "=", "A", "T", "A", "N", "2", "(", "A", "1", ",", "B", "1", ")" >>,
     << "=", "S", "U", "M", "(", "A", "1", ":", "B", "2", ")" >>,
     << "=", "\"", "x", "\"", "&", "$", "A", "$", "1" >> >>

\* the formula under test in C1, above a cell that reads one input
TokenBooks ==
  {Book(<< FormulaCell(ColC, 1, TokenMenu[t]),
           FormulaCell(ColC, 2, ColumnMenu(2)[f]) >>,
        ColumnOf(ColA) \cup ColumnOf(ColB), NoTables) :
     t \in DOMAIN TokenMenu, f \in {1, 2, 4}}

Books ==
  ColumnBooks \cup TotalBooks \cup DragBooks \cup MalformedBooks
    \cup FunctionBooks \cup CornerBooks

(***************************************************************************)
(* Probe workbooks for the collection of references: two formula cells on  *)
(* sheet S over data in column A, each holding one of the formulas below   *)
(* written for its own position.  A formula and its copy one row or two    *)
(* rows further down make a row-drag pair.                                 *)
(***************************************************************************)
\* the formulas a cell at (col, r) may hold: relative, absolute and mixed
\* references, ranges, a row whose number of digits changes, a function
\* whose name reads like a cell, reference-like text and placeholder-like
\* text inside string literals, other sheets and an external workbook
ProbeMenu(col, r) ==
  << << "=" >> \o Ref(ColA, r) \o << "*", "2" >>,
     << "=" >> \o Ref(ColA, r) \o << "*", "3" >>,
     << "=", "$", "A", "$", "1", "+" >> \o Ref(ColA, r),
     << "=", "A", "$", "1", "+" >> \o Ref(ColA, r),
     << "=", "$", "A" >> \o IntText(r),
     << "=", "S", "U", "M", "(", "$", "A", "$", "1", ":" >> \o Ref(ColA, r)
       \o << ")" >>,
     << "=", "S", "U", "M", "(" >> \o Ref(ColA, r) \o << ":" >> \o Ref(ColA,
       r + 1) \o << ")" >>,
     << "=" >> \o Ref(ColA, r) \o << "+" >> \o Ref(ColA, r + 1),
     << "=" >> \o Ref(ColA, r + 8) \o << "+", "1" >>,
     << "=", "L", "O", "G", "1", "0", "(" >> \o Ref(ColA, r) \o << ")" >>,
     << "=", "\"", "A", "1", "\"", "&" >> \o Ref(ColA, r),
     << "=", "\"", "x", "\"", "\"", "A", "1", "\"", "&" >> \o Ref(ColA, r),
     << "=", "\"", "@", "0", "\"", "&" >> \o Ref(ColA, r),
     << "=" >> \o Ref(ColA, r) \o << "&", "\"", "@", "0", "\"" >>,
     << "=", "S", "2", "!" >> \o Ref(ColA, r),
     << "=", "'", "S", " ", "2", "'", "!" >> \o Ref(ColA, r) \o << ":" >> \o
       Ref(ColA, r + 1),
     << "=", "[", "W", ".", "x", "l", "s", "x", "]", "S", "2", "!" >> \o
       Ref(ColA, r),
     << "=", "'", "[", "W", ".", "x", "l", "s", "x", "]", "S", "2", "'", "!",
       "$", "A", "$", "1", ":" >> \o Ref(ColA, r),
     << "=" >> \o Ref(LeftOf(col), r) \o << "+", "1" >> >>

\* the first cell is B1; the second is further down column B or beside it
ProbePositions ==
  [r \in 1..MaxRow |-> << ColB, r >>] \o << << ColC, 1 >> >>

ProbeBooks ==
  {Book(<< FormulaCell(ProbePositions[1][1], ProbePositions[1][2],
                       ProbeMenu(ProbePositions[1][1],
                                 ProbePositions[1][2])[t1]),
           FormulaCell(ProbePositions[p][1], ProbePositions[p][2],
                       ProbeMenu(ProbePositions[p][1],
                                 ProbePositions[p][2])[t2]) >>,
        ColumnOf(ColA), NoTables) :
     p \in 2..Len(ProbePositions),
     t1 \in DOMAIN ProbeMenu(ColB, 1), t2 \in DOMAIN ProbeMenu(ColB, 1)}


(***************************************************************************)
(* The state: the parsed workbook, the converter that runs on it, and the  *)
(* run of the program it emits.                                            *)
(***************************************************************************)
VARIABLES
  formula_cells,  \* classify_cells: the formula cells, row by row
  hardcoded,      \* the keys of the hardcoded cells
  tables,         \* parse_workbook: the tables by name
  delete_unreferenced,  \* config: delete_unreferenced_hardcoded_values
  hardcoded_cells,  \* the list hardcoded_cells of convert_excel_to_python:
                  \* what classify_cells returned, then what
                  \* filter_hardcoded_cells returned
  cell_pats,      \* group_formulas: pattern key and references per cell
  col_arg,        \* the argument of a column conversion
  col_trip,       \* the results of the column conversions applied to it
  text_arg,       \* the arguments of a call of a text function
  text_out,       \* the results of the text functions applied to them
  pipeline,       \* "none", "plain", "vectorized", "offlineopus" or
                  \* "mapping"
  pc,             \* "parsed", "filtered", "grouped", "ordered", "emitted",
                  \* "done"; "idle": no workbook is converted;
                  \* "raised": the converter raised; "aborted": the emitted
                  \* program raised outside every try
  groups,         \* group_formulas: the groups
  singles,        \* group_formulas: the singles
  ordered,        \* the evaluation order, as items
  circular,       \* the items appended after the queue ran empty
  diagnostics,    \* what the scheduler logged
  program,        \* the emitted statements, one per ordered item
  ip,             \* the statement the emitted program executes next
  loop_pos,       \* the position in the loop values of that statement
  store           \* the formula cells assigned so far, in order

vars ==
  << formula_cells, hardcoded, tables, delete_unreferenced, hardcoded_cells,
     cell_pats, col_arg, col_trip, text_arg, text_out, pipeline, pc, groups,
     singles, ordered, circular, diagnostics, program, ip, loop_pos, store >>

workbook == << formula_cells, hardcoded, tables >>
runtime == << program, ip, loop_pos, store >>
columns == << col_arg, col_trip >>
texts == << text_arg, text_out >>

\* a key comes before another by row, then by column: the order in which
\* parse_workbook fills the cells of a sheet and classify_cells lists them
RowMajor(a, b) ==
  \/ a[3] < b[3]
  \/ a[3] = b[3] /\ col_letter_to_index(a[2]) < col_letter_to_index(b[2])

\* no column conversion is under way
NoColumn == [kind |-> "none", letters |-> << >>, index |-> 0]

\* no text function is called
NoText == [fn |-> "none"]

\* a workbook was parsed and classified, nothing was converted yet
Loaded(books, flags) ==
  /\ \E b \in books :
       /\ formula_cells = b.formula_cells
       /\ hardcoded = b.hardcoded
       /\ tables = b.tables
       /\ hardcoded_cells = SortBy(b.hardcoded, RowMajor)
  /\ delete_unreferenced \in flags
  /\ cell_pats = << >>
  /\ col_arg = NoColumn
  /\ col_trip = << >>
  /\ text_arg = NoText
  /\ text_out = << >>
  /\ pipeline = "none"
  /\ pc = "parsed"
  /\ groups = << >>
  /\ singles = << >>
  /\ ordered = << >>
  /\ circular = << >>
  /\ diagnostics = << >>
  /\ program = << >>
  /\ ip = 1
  /\ loop_pos = 1
  /\ store = << >>

\* the configuration file is optional: by default nothing is deleted
Init == Loaded(Books, {FALSE})

Keys == [i \in DOMAIN formula_cells |-> CellKey(formula_cells[i])]

\* the formula cells of a list of keys, each as a single item
ItemsOf(key_list, keys) ==
  [j \in DOMAIN key_list |->
     SingleItem(formula_cells[IndexIn(keys, key_list[j])])]

\* excel_to_python.py: convert_excel_to_python from find_all_references to
\* filter_hardcoded_cells
FilterHardcodedCells ==
  /\ pc = "parsed"
  /\ pipeline' = "plain"
  /\ \E refs \in {find_all_references(formula_cells, tables)} :
       IF refs.raised
       THEN /\ pc' = "raised"
            /\ UNCHANGED hardcoded_cells
       ELSE /\ hardcoded_cells' =
                 filter_hardcoded_cells(hardcoded_cells, refs.cells,
                                        refs.ranges, refs.tables, tables,
                                        delete_unreferenced)
            /\ pc' = "filtered"
  /\ UNCHANGED << workbook, delete_unreferenced, cell_pats, columns, texts,
                  groups,
                  singles, ordered, circular, diagnostics, runtime >>

\* excel_to_python.py: build_dependency_order; the set all_keys is iterated
\* in any order
build_dependency_order ==
  /\ pc = "filtered"
  /\ \E d \in {DependencyMap(formula_cells, tables)} :
       IF d.raised
       THEN /\ pc' = "raised"
            /\ UNCHANGED << ordered, circular >>
       ELSE \E iter \in Perms(Range(Keys)) :
              \E r \in {OrderFromDeps(Keys, d.deps, iter)} :
                 /\ ordered' = ItemsOf(r.order, Keys)
                 /\ circular' = ItemsOf(r.circular, Keys)
                 /\ pc' = "ordered"
  /\ UNCHANGED << workbook, delete_unreferenced, hardcoded_cells, cell_pats,
                  columns, texts,
                  pipeline, groups, singles, diagnostics, runtime >>

\* excel_to_python.py: generate_python_script, the compute section
generate_python_script ==
  /\ pc = "ordered"
  /\ pipeline = "plain"
  /\ program' = [j \in DOMAIN ordered |->
                   PlainStatement(ordered[j].cells[1], tables)]
  /\ pc' = "emitted"
  /\ UNCHANGED << workbook, delete_unreferenced, hardcoded_cells, cell_pats,
                  columns, texts,
                  pipeline, groups, singles, ordered, circular,
                  diagnostics, ip, loop_pos, store >>

\* excel_to_python_vectorized: group_formulas
GroupFormulas ==
  /\ pc = "parsed"
  /\ pipeline' = "vectorized"
  /\ \E g \in {group_formulas(formula_cells)} :
       /\ cell_pats' = g.cell_pats
       /\ groups' = g.groups
       /\ singles' = g.singles
  /\ pc' = "grouped"
  /\ UNCHANGED << workbook, delete_unreferenced, hardcoded_cells, columns, texts,
                  ordered, circular, diagnostics, runtime >>

\* excel_to_python_vectorized: order_items
OrderItems ==
  /\ pc = "grouped"
  /\ \E r \in {order_items(groups, singles, tables)} :
       IF r.raised
       THEN /\ pc' = "raised"
            /\ UNCHANGED << ordered, circular >>
       ELSE /\ ordered' = r.items
            /\ circular' = r.circular
            /\ pc' = "ordered"
  /\ UNCHANGED << workbook, delete_unreferenced, hardcoded_cells, cell_pats,
                  columns, texts,
                  pipeline, groups, singles, diagnostics,
                  runtime >>

\* excel_to_python_vectorized: generate_vectorized_script, the compute
\* section
generate_vectorized_script ==
  /\ pc = "ordered"
  /\ pipeline = "vectorized"
  /\ program' = compute_section(ordered, tables)
  /\ pc' = "emitted"
  /\ UNCHANGED << workbook, delete_unreferenced, hardcoded_cells, cell_pats,
                  columns, texts,
                  pipeline, groups, singles, ordered, circular,
                  diagnostics, ip, loop_pos, store >>

OpusKeyList == [i \in DOMAIN formula_cells |-> OpusKey(formula_cells[i])]

\* offlineopus: build_dependency_graph and topological_sort; the set
\* formula_cells is iterated in any order, the warning names a count
TopologicalSort ==
  /\ pc = "parsed"
  /\ pipeline' = "offlineopus"
  /\ \E adjacency \in {build_dependency_graph(formula_cells)} :
       \E iter \in Perms(DOMAIN adjacency) :
          \E r \in {topological_sort(adjacency, iter)} :
             /\ ordered' = ItemsOf(r.order, OpusKeyList)
             /\ circular' = ItemsOf(r.circular, OpusKeyList)
             /\ diagnostics' =
                  IF r.warned > 0
                  THEN << [level |-> "warning", count |-> r.warned,
                           cells |-> {}] >>
                  ELSE << >>
  /\ pc' = "ordered"
  /\ UNCHANGED << workbook, delete_unreferenced, hardcoded_cells, cell_pats,
                  columns, texts,
                  groups, singles, runtime >>

\* offlineopus: generate_calculator, the calculate function
generate_calculator ==
  /\ pc = "ordered"
  /\ pipeline = "offlineopus"
  /\ program' = [j \in DOMAIN ordered |-> OpusStatement(ordered[j].cells[1])]
  /\ pc' = "emitted"
  /\ UNCHANGED << workbook, delete_unreferenced, hardcoded_cells, cell_pats,
                  columns, texts,
                  pipeline, groups, singles, ordered, circular,
                  diagnostics, ip, loop_pos, store >>

\* the names bound when a statement runs: the loaded cells (those of the
\* list hardcoded_cells in the program of excel_to_python.py) and the
\* formula cells assigned so far
Bound ==
  (IF pipeline = "plain" THEN Range(hardcoded_cells) ELSE hardcoded)
    \cup {store[j].key : j \in DOMAIN store}

\* the expression raises for certain: it names a cell variable that is not
\* bound, or a table variable that nothing replaced
MustFail(st) ==
  \E j \in DOMAIN st.expr :
     \/ st.expr[j].k = "name"
     \/ /\ st.expr[j].k = "cell"
        /\ << st.expr[j].sheet, st.expr[j].c1, st.expr[j].r1 >> \notin Bound

\* main() of the emitted program: the next assignment.  A rebuild line
\* stands before the try and raises NameError when its builder is not
\* defined or a cell it lists is not bound; the expression inside the try
\* may fail for its values, and the except branch then assigns the fallback
RunStatement ==
  /\ pc = "emitted"
  /\ LET st == program[ip]
         values == LoopValues(st.loop)
         idx == IF st.kind = "assign" THEN 0 ELSE values[loop_pos]
         last_iter == st.kind = "assign" \/ loop_pos = Len(values)
     IN IF \E rb \in st.rebuilds : ~rb.defined \/ ~(rb.cells \subseteq Bound)
        THEN /\ pc' = "aborted"
             /\ UNCHANGED << ip, loop_pos, store >>
        ELSE \E fails \in BOOLEAN :
               /\ MustFail(st) => fails
               /\ store' = Append(store,
                                  [key |-> TargetAt(st, idx),
                                   how |-> IF fails THEN st.fallback
                                           ELSE "value"])
               /\ ip' = IF last_iter THEN ip + 1 ELSE ip
               /\ loop_pos' = IF last_iter THEN 1 ELSE loop_pos + 1
               /\ pc' = IF last_iter /\ ip = Len(program) THEN "done" ELSE pc
  /\ UNCHANGED << workbook, delete_unreferenced, hardcoded_cells, cell_pats,
                  columns, texts,
                  pipeline, groups, singles, ordered, circular,
                  diagnostics, program >>

Next ==
  \/ FilterHardcodedCells
  \/ build_dependency_order
  \/ generate_python_script
  \/ GroupFormulas
  \/ OrderItems
  \/ generate_vectorized_script
  \/ TopologicalSort
  \/ generate_calculator
  \/ RunStatement

Spec == Init /\ [][Next]_vars

(***************************************************************************)
(* The collection of references alone, on the probe workbooks: the first   *)
(* steps of the three converters.                                          *)
(***************************************************************************)
ProbeInit == Loaded(ProbeBooks, {FALSE})

CollectNext ==
  \/ FilterHardcodedCells
  \/ build_dependency_order
  \/ GroupFormulas
  \/ TopologicalSort

ProbeSpec == ProbeInit /\ [][CollectNext]_vars

(***************************************************************************)
(* The two column conversions on their own: an index or a letter string is *)
(* converted, and the result converted back.                               *)
(***************************************************************************)
\* the collection of references on the workbooks of names and calls
TokenInit == Loaded(TokenBooks, {FALSE})

TokenSpec == TokenInit /\ [][CollectNext]_vars

\* the first steps of convert_excel_to_python with and without
\* delete_unreferenced_hardcoded_values
LoopInit == Loaded(LoopBooks, {FALSE})

LoopSpec == LoopInit /\ [][CollectNext]_vars

WeaveInit == Loaded(WeaveBooks, {FALSE})

WeaveNext ==
  \/ GroupFormulas
  \/ OrderItems

WeaveSpec == WeaveInit /\ [][WeaveNext]_vars

\* mapper.py: _build_sheet_rows, the rows of the groups of a sheet
BuildSheetRows ==
  /\ pc = "parsed"
  /\ pipeline' = "mapping"
  /\ \E g \in {group_formulas(formula_cells)} :
       /\ cell_pats' = g.cell_pats
       /\ groups' = g.groups
       /\ singles' = g.singles
       /\ text_arg' = [fn |-> "_expand_group",
                       rows |-> [j \in DOMAIN g.groups |-> GroupRow(g.groups[j])]]
  /\ pc' = "grouped"
  /\ UNCHANGED << workbook, delete_unreferenced, hardcoded_cells, columns,
                  text_out, ordered, circular, diagnostics, runtime >>

\* regenerator.py: _expand_group applied to every group row of the report
RegenerateGroups ==
  /\ pc = "grouped"
  /\ text_arg.fn = "_expand_group"
  /\ text_out = << >>
  /\ text_out' = << [j \in DOMAIN text_arg.rows |->
                       ExpandGroup(text_arg.rows[j])] >>
  /\ UNCHANGED << workbook, delete_unreferenced, hardcoded_cells, cell_pats,
                  columns, text_arg, pipeline, pc, groups, singles, ordered,
                  circular, diagnostics, runtime >>

MappedInit == Loaded(MappedBooks \cup DragBooks, {FALSE})

MappedNext ==
  \/ BuildSheetRows
  \/ RegenerateGroups

MappedSpec == MappedInit /\ [][MappedNext]_vars

FilterInit == Loaded(FilterBooks, BOOLEAN)

FilterNext ==
  \/ FilterHardcodedCells
  \/ build_dependency_order

FilterSpec == FilterInit /\ [][FilterNext]_vars

ColumnArgs ==
  {[kind |-> "index", letters |-> << >>, index |-> i] : i \in 1..MaxColumn}
    \cup {[kind |-> "letters", letters |-> s, index |-> 0] :
             s \in UNION {[1..n -> Range(Alphabet)] : n \in 1..MaxLetters}}

ColumnInit ==
  /\ formula_cells = << >>
  /\ hardcoded = {}
  /\ tables = NoTables
  /\ hardcoded_cells = << >>
  /\ delete_unreferenced = FALSE
  /\ cell_pats = << >>
  /\ col_arg \in ColumnArgs
  /\ col_trip = << >>
  /\ text_arg = NoText
  /\ text_out = << >>
  /\ pipeline = "none"
  /\ pc = "idle"
  /\ groups = << >>
  /\ singles = << >>
  /\ ordered = << >>
  /\ circular = << >>
  /\ diagnostics = << >>
  /\ program = << >>
  /\ ip = 1
  /\ loop_pos = 1
  /\ store = << >>

\* index_to_col_letter applied to the index given, or to the index the
\* letters given were converted to
IndexToColLetter ==
  /\ pc = "idle"
  /\ \/ /\ col_arg.kind = "index"
        /\ col_trip = << >>
        /\ col_trip' = << index_to_col_letter(col_arg.index) >>
     \/ /\ col_arg.kind = "letters"
        /\ Len(col_trip) = 1
        /\ col_trip' = Append(col_trip, index_to_col_letter(col_trip[1]))
  /\ UNCHANGED << workbook, delete_unreferenced, hardcoded_cells, cell_pats,
                  col_arg, texts, pipeline, pc, groups, singles, ordered, circular,
                  diagnostics, runtime >>

\* col_letter_to_index applied to the letters given, or to the letters the
\* index given was converted to
ColLetterToIndex ==
  /\ pc = "idle"
  /\ \/ /\ col_arg.kind = "letters"
        /\ col_trip = << >>
        /\ col_trip' = << col_letter_to_index(col_arg.letters) >>
     \/ /\ col_arg.kind = "index"
        /\ Len(col_trip) = 1
        /\ col_trip' = Append(col_trip, col_letter_to_index(col_trip[1]))
  /\ UNCHANGED << workbook, delete_unreferenced, hardcoded_cells, cell_pats,
                  col_arg, texts, pipeline, pc, groups, singles, ordered, circular,
                  diagnostics, runtime >>

ColumnNext ==
  \/ IndexToColLetter
  \/ ColLetterToIndex

ColumnSpec == ColumnInit /\ [][ColumnNext]_vars

\* everything but the call of a text function is at rest
TextIdle ==
  /\ formula_cells = << >>
  /\ hardcoded = {}
  /\ tables = NoTables
  /\ hardcoded_cells = << >>
  /\ delete_unreferenced = FALSE
  /\ cell_pats = << >>
  /\ col_arg = NoColumn
  /\ col_trip = << >>
  /\ text_out = << >>
  /\ pipeline = "none"
  /\ pc = "idle"
  /\ groups = << >>
  /\ singles = << >>
  /\ ordered = << >>
  /\ circular = << >>
  /\ diagnostics = << >>
  /\ program = << >>
  /\ ip = 1
  /\ loop_pos = 1
  /\ store = << >>

TextRest ==
  << workbook, delete_unreferenced, hardcoded_cells, cell_pats, columns,
     text_arg, pipeline, pc, groups, singles, ordered, circular, diagnostics,
     runtime >>

\* the characters _find_matching_paren and _split_function_args tell apart,
\* a letter and a blank
ParenChars == << "(", ")", ",", Quote, "A", " " >>

ParenTexts == UNION {[1..n -> Range(ParenChars)] : n \in 1..MaxText}

\* _parse_next_token calls _find_matching_paren with the position of an
\* opening parenthesis and _split_function_args with a text that is not
\* empty
ParenArgs ==
  {[fn |-> "_find_matching_paren", text |-> t, start |-> p] :
     t \in ParenTexts, p \in 1..MaxText}
    \cup {[fn |-> "_split_function_args", text |-> t, start |-> 0] :
             t \in ParenTexts}

ParenInit ==
  /\ TextIdle
  /\ text_arg \in {a \in ParenArgs :
                     a.fn = "_find_matching_paren"
                       => a.start <= Len(a.text) /\ a.text[a.start] = "("}

FindMatchingParenCall ==
  /\ text_arg.fn = "_find_matching_paren"
  /\ text_out = << >>
  /\ text_out' = << FindMatchingParen(text_arg.text, text_arg.start) >>
  /\ UNCHANGED TextRest

SplitFunctionArgsCall ==
  /\ text_arg.fn = "_split_function_args"
  /\ text_out = << >>
  /\ text_out' = << SplitFunctionArgs(text_arg.text) >>
  /\ UNCHANGED TextRest

ParenNext ==
  \/ FindMatchingParenCall
  \/ SplitFunctionArgsCall

ParenSpec == ParenInit /\ [][ParenNext]_vars

\* the operands of a formula with one operator: the cell A1, a whole number
\* or a percentage
PercentOperands ==
  {[kind |-> "cell", n |-> 0]}
    \cup {[kind |-> "num", n |-> n] : n \in 1..MaxPower}
    \cup {[kind |-> "pct", n |-> n] : n \in {5, 50}}

OperandText(o) ==
  IF o.kind = "cell" THEN << "A", "1" >>
  ELSE IF o.kind = "num" THEN IntText(o.n)
  ELSE IntText(o.n) \o << "%" >>

\* a formula of one operator between two operands, and the value of A1
PercentArgs ==
  {[fn |-> "convert",
    text |-> << "=" >> \o OperandText(l) \o << op >> \o OperandText(r),
    left |-> l, op |-> op, right |-> r, value |-> v] :
     l \in PercentOperands, op \in {"+", "-", "*", "/", "^"},
     r \in PercentOperands, v \in 1..MaxValue}

PercentInit ==
  /\ TextIdle
  /\ text_arg \in PercentArgs

\* FormulaConverter("S").convert(formula)
ConvertCall ==
  /\ text_arg.fn = "convert"
  /\ text_out = << >>
  /\ text_out' = << Convert(Sh, NoTables, text_arg.text) >>
  /\ UNCHANGED TextRest

PercentSpec == PercentInit /\ [][ConvertCall]_vars

\* sheet names of a letter, a digit, a blank and an underscore
SheetChars == << "S", "1", " ", "_" >>

SheetNames == UNION {[1..n -> Range(SheetChars)] : n \in 1..2}

\* two cells, or two ranges, named in one generated program
NameArgs ==
  {[fn |-> "cell_to_var_name", a |-> << s1, c1, r1 >>, b |-> << s2, c2, r2 >>] :
     s1 \in SheetNames, s2 \in {<< "S", "1" >>, << "S", "_" >>},
     c1 \in {ColA, ColB}, c2 \in {ColA, ColB},
     r1 \in 1..MaxRow, r2 \in 1..MaxRow}
    \cup {[fn |-> "range_to_var_name", a |-> << s1, ColA, r1, ColB, MaxRow >>,
            b |-> << s2, ColA, r2, ColB, MaxRow >>] :
             s1 \in SheetNames, s2 \in {<< "S", "1" >>, << "S", "_" >>},
             r1 \in 1..MaxRow, r2 \in 1..MaxRow}

NameInit ==
  /\ TextIdle
  /\ text_arg \in NameArgs

CellToVarName ==
  /\ text_arg.fn = "cell_to_var_name"
  /\ text_out = << >>
  /\ text_out' = << cell_to_var_name(text_arg.a[1], text_arg.a[2], text_arg.a[3]),
                    cell_to_var_name(text_arg.b[1], text_arg.b[2], text_arg.b[3]) >>
  /\ UNCHANGED TextRest

RangeToVarName ==
  /\ text_arg.fn = "range_to_var_name"
  /\ text_out = << >>
  /\ text_out' = << range_to_var_name(text_arg.a[1], text_arg.a[2], text_arg.a[3],
                                      text_arg.a[4], text_arg.a[5]),
                    range_to_var_name(text_arg.b[1], text_arg.b[2], text_arg.b[3],
                                      text_arg.b[4], text_arg.b[5]) >>
  /\ UNCHANGED TextRest

NameNext ==
  \/ CellToVarName
  \/ RangeToVarName

NameSpec == NameInit /\ [][NameNext]_vars

(***************************************************************************)
(* What the claims speak of.                                               *)
(***************************************************************************)
FormulaKeys == Range(Keys)

\* the cells a formula cell reads, as build_dependency_order collects them
PlainGraph == DependencyMap(formula_cells, tables).deps

\* the cells a formula cell reads, as build_dependency_graph collects them
OpusGraph ==
  LET adjacency == build_dependency_graph(formula_cells)
  IN [k \in FormulaKeys |->
        {<< d[1], index_to_col_letter(d[3]), d[2] >> :
           d \in adjacency[OpusKey(formula_cells[IndexIn(Keys, k)])]}]

\* the cells a formula cell reads directly, through a range or through a
\* table column
FullGraph ==
  [k \in FormulaKeys |->
     LET fc == formula_cells[IndexIn(Keys, k)]
         conv == Convert(fc.sheet, tables, fc.formula)
     IN CellDeps(conv)
        \cup UNION {TableCells(tables, ref) : ref \in conv.tables}]

\* the nodes left after removing, again and again, every node that reads
\* no remaining node
RECURSIVE Peel(_, _)
Peel(nodes, reads) ==
  LET free == {k \in nodes : reads[k] \cap nodes = {}}
  IN IF free = {} THEN nodes ELSE Peel(nodes \ free, reads)

Acyclic(reads) == Peel(DOMAIN reads, reads) = {}

\* the positions of the ordered items that compute a cell
Positions(key) == {j \in DOMAIN ordered : key \in CellsProduced(ordered[j])}

\* every occurrence of v in the order comes after an occurrence of u
Precedes(u, v) ==
  /\ Positions(v) # {}
  /\ \A j \in Positions(v) : \E i \in Positions(u) : i < j

\* the cells listed by a sequence of items
RECURSIVE CellsOf(_)
CellsOf(items) ==
  IF items = << >> THEN << >> ELSE Head(items).cells \o CellsOf(Tail(items))

\* cells lists every formula cell of the workbook once and nothing else
ExactlyOnce(cells) ==
  /\ Len(cells) = Len(formula_cells)
  /\ \A i \in DOMAIN formula_cells :
        Cardinality({j \in DOMAIN cells : cells[j] = formula_cells[i]}) = 1

\* the formula has an odd number of double quotes
UnterminatedString(formula) ==
  Cardinality({i \in DOMAIN formula : formula[i] = Quote}) % 2 = 1

\* a comes before b by sheet, then row, then column
CellLess(a, b) ==
  \/ TextLess(a.sheet, b.sheet)
  \/ a.sheet = b.sheet /\ a.row < b.row
  \/ a.sheet = b.sheet /\ a.row = b.row /\ ColIdx(a) < ColIdx(b)

(***************************************************************************)
(* The claims.                                                             *)
(***************************************************************************)
\* C1: for every edge u -> v of an acyclic dependency graph (formula cell v
\* reads formula cell u, directly or through a range), u precedes v in the
\* order build_dependency_order and topological_sort return, whatever
\* order the zero-in-degree cells are seeded in.
C1_TopologicalOrder ==
  (pc = "ordered" /\ pipeline \in {"plain", "offlineopus"}) =>
    \E reads \in {IF pipeline = "plain" THEN PlainGraph ELSE OpusGraph} :
       Acyclic(reads) =>
         \A v \in FormulaKeys :
            \A u \in reads[v] \cap FormulaKeys : Precedes(u, v)

\* an acyclic workbook with an edge whose returned order does not start
\* with the first formula cell: the seeds went in in another order
C1_Witness ==
  /\ pc = "ordered"
  /\ pipeline = "plain"
  /\ circular = << >>
  /\ ordered[1].cells[1] # formula_cells[1]
  /\ \E v \in FormulaKeys : PlainGraph[v] \cap FormulaKeys # {}
  /\ Cardinality({v \in FormulaKeys : PlainGraph[v] \cap FormulaKeys = {}})
       >= 2

\* C2: when the cell-level dependency graph is acyclic, running the items
\* order_items returned in sequence, each group as one loop over its
\* members in ascending order, computes every formula cell only after
\* every formula cell it reads.
C2_PlanConsistent ==
  (pc = "done" /\ pipeline = "vectorized") =>
    \E reads \in {PlainGraph} :
       Acyclic(reads) =>
         \A i \in DOMAIN store :
            reads[store[i].key] \cap FormulaKeys
              \subseteq {store[j].key : j \in 1..(i - 1)}

C4_CyclesScheduledOnce ==
  /\ pc = "ordered" =>
       /\ ExactlyOnce(CellsOf(ordered))
       /\ pipeline = "vectorized" =>
            /\ Len(ordered) = Len(groups) + Len(singles)
            /\ \A g \in DOMAIN groups : groups[g] \in Range(ordered)
  /\ pc = "raised" =>
       \E i \in DOMAIN formula_cells :
          UnterminatedString(formula_cells[i].formula)

\* the three cells of a 3-cycle scheduled by topological_sort
C4_Witness ==
  /\ pc = "ordered"
  /\ pipeline = "offlineopus"
  /\ Len(circular) = 3
  /\ \A k \in FormulaKeys : Cardinality(OpusGraph[k] \cap FormulaKeys) = 1

\* C5: whenever cells are left over because of a circular reference, the
\* scheduler logs a diagnostic that names those cells.
C5_CycleDiagnostic ==
  (pc = "ordered" /\ circular # << >>) =>
    \E d \in DOMAIN diagnostics :
       {CellKey(fc) : fc \in Range(CellsOf(circular))}
         \subseteq diagnostics[d].cells

\* C6: the cells left over by a cycle are appended in the order of sheet,
\* row and column, whatever order the sets are iterated in.
C6_DeterministicFallback ==
  (pc = "ordered" /\ pipeline \in {"plain", "offlineopus"}) =>
    \E left \in {CellsOf(circular)} :
       \A i, j \in DOMAIN left : i < j => CellLess(left[i], left[j])

\* C7: the loop emitted for a group, taken at the index of a member,
\* assigns that member and reads exactly the cells the member's own
\* formula reads.
C7_GroupLoopReads ==
  (pc = "emitted" /\ pipeline = "vectorized") =>
    \A j \in DOMAIN program :
       program[j].kind # "assign" =>
         \E values \in {LoopValues(program[j].loop)} :
            /\ Len(values) = Len(ordered[j].cells)
            /\ \A i \in DOMAIN values :
                  \E fc \in {ordered[j].cells[i]} :
                     /\ TargetAt(program[j], values[i]) = CellKey(fc)
                     /\ ReadsAt(program[j].expr, values[i])
                          = ReadsAt(emit_single(SingleItem(fc), tables).expr,
                                    0)

\* C8: no formula text makes reference collection, ordering or emission
\* raise.
C8_NoFormulaAborts == pc # "raised"

\* C9: the emitted program never raises outside a guard, and when it ends
\* every formula cell has been assigned a value or a fallback.
C9_GuardedRuntime ==
  /\ pc # "aborted"
  /\ pc = "done" => FormulaKeys \subseteq {store[j].key : j \in DOMAIN store}

\* C10: a formula that reads formula cells through a range or a table
\* column is scheduled after each of them.
C10_RangesAndTablesExpanded ==
  (pc = "ordered" /\ pipeline \in {"plain", "vectorized"}) =>
    \E reads \in {FullGraph} :
       Acyclic(reads) =>
         \A v \in FormulaKeys :
            \A u \in (reads[v] \cap FormulaKeys) \ {v} :
               \A j \in Positions(v) : \E i \in Positions(u) : i <= j

\* fc2 holds the formula of fc1 as a drag down its column rewrites it: both
\* hold the same formula of the menu, written for their own rows
RowDragCopy(fc1, fc2) ==
  /\ fc1.sheet = fc2.sheet
  /\ fc1.col = fc2.col
  /\ fc1.row # fc2.row
  /\ \E t \in DOMAIN ProbeMenu(fc1.col, fc1.row) :
        /\ fc1.formula = ProbeMenu(fc1.col, fc1.row)[t]
        /\ fc2.formula = ProbeMenu(fc2.col, fc2.row)[t]

\* C11: two formula cells of a column of which one holds the row-drag copy
\* of the other's formula get equal pattern keys from group_formulas.
C11_DragCopiesShareKey ==
  pc = "grouped" =>
    \A i, j \in DOMAIN formula_cells :
       RowDragCopy(formula_cells[i], formula_cells[j]) =>
         cell_pats[i].pattern_key = cell_pats[j].pattern_key

\* the pieces of the formula text that lie outside the spans of refs: the
\* piece before the first reference, those between two references, and the
\* piece after the last
OutsideText(formula, refs) ==
  [k \in 1..(Len(refs) + 1) |->
     SubSeq(StripEq(formula),
            IF k = 1 THEN 1 ELSE refs[k - 1].end,
            IF k = Len(refs) + 1 THEN Len(StripEq(formula))
            ELSE refs[k].start - 1)]

\* one axis of two references agrees: both absolute with the same value, or
\* both relative with the same offset from their own cells
SameAxis(abs1, v1, at1, abs2, v2, at2) ==
  /\ abs1 = abs2
  /\ IF abs1 THEN v1 = v2 ELSE v1 - at1 = v2 - at2

\* reference r1 of cell fc1 and reference r2 of cell fc2 have the same shape
SameShape(r1, fc1, r2, fc2) ==
  /\ r1.kind = r2.kind
  /\ r1.ext = r2.ext
  /\ r1.sheet = r2.sheet
  /\ SameAxis(r1.cabs, col_letter_to_index(r1.col), col_letter_to_index(fc1.col),
              r2.cabs, col_letter_to_index(r2.col), col_letter_to_index(fc2.col))
  /\ SameAxis(r1.rabs, r1.row, fc1.row, r2.rabs, r2.row, fc2.row)
  /\ r1.kind = "range" =>
        /\ SameAxis(r1.ecabs, col_letter_to_index(r1.ecol), col_letter_to_index(fc1.col),
                    r2.ecabs, col_letter_to_index(r2.ecol), col_letter_to_index(fc2.col))
        /\ SameAxis(r1.erabs, r1.erow, fc1.row, r2.erabs, r2.erow, fc2.row)

WholeExternal(formula, refs) ==
  /\ Len(StripEq(formula)) >= 1
  /\ StripEq(formula)[1] = "[" \/ SubSeq(StripEq(formula), 1, 2) = << "'", "[" >>
  /\ \E k \in DOMAIN refs :
        refs[k].ext # << >> /\ Span(refs[k]) = 1..Len(StripEq(formula))

\* C13: the references extract_references returns for a formula lie inside
\* its text, each starts at or after the end of the one before it (strictly
\* increasing offsets, disjoint spans), and a formula that is one external
\* reference yields exactly one reference.
C13_SpansClaimedOnce ==
  pc = "grouped" =>
    \A i \in DOMAIN formula_cells :
       /\ \A k \in DOMAIN cell_pats[i].refs :
             /\ 1 <= cell_pats[i].refs[k].start
             /\ cell_pats[i].refs[k].start < cell_pats[i].refs[k].end
             /\ cell_pats[i].refs[k].end
                  <= Len(StripEq(formula_cells[i].formula)) + 1
       /\ \A k, l \in DOMAIN cell_pats[i].refs :
             k < l => cell_pats[i].refs[k].end <= cell_pats[i].refs[l].start
       /\ WholeExternal(formula_cells[i].formula, cell_pats[i].refs)
            => Len(cell_pats[i].refs) = 1

\* a formula that is one external reference beside a formula with two
\* references
C13_Witness ==
  /\ pc = "grouped"
  /\ \E i, j \in DOMAIN formula_cells :
        /\ WholeExternal(formula_cells[i].formula, cell_pats[i].refs)
        /\ Len(cell_pats[j].refs) >= 2

\* the positions of text that lie inside a double-quoted string literal,
\* the quotes that open and close it excluded; a doubled quote inside a
\* literal belongs to it
RECURSIVE LiteralLoop(_, _, _)
LiteralLoop(text, i, inside) ==
  IF i > Len(text) THEN {}
  ELSE IF text[i] # Quote
  THEN (IF inside THEN {i} ELSE {}) \cup LiteralLoop(text, i + 1, inside)
  ELSE IF inside /\ i + 1 <= Len(text) /\ text[i + 1] = Quote
  THEN {i, i + 1} \cup LiteralLoop(text, i + 2, inside)
  ELSE LiteralLoop(text, i + 1, ~inside)

LiteralPositions(text) == LiteralLoop(text, 1, FALSE)

\* text with the content of its string literals blanked
Blanked(text) ==
  [i \in 1..Len(text) |->
     IF i \in LiteralPositions(text) THEN " " ELSE text[i]]

\* C14: no reference extract_references returns lies inside a string
\* literal, and the dependency edges build_dependency_graph records for a
\* cell are those of its formula with the string literals blanked.
C14_NoReferenceInsideString ==
  /\ pc = "grouped" =>
       \A i \in DOMAIN formula_cells :
          \A k \in DOMAIN cell_pats[i].refs :
             Span(cell_pats[i].refs[k])
               \cap LiteralPositions(StripEq(formula_cells[i].formula)) = {}
  /\ (pc = "ordered" /\ pipeline = "offlineopus") =>
       \A i \in DOMAIN formula_cells :
          build_dependency_graph(formula_cells)[OpusKey(formula_cells[i])]
            = extract_cell_references(Blanked(Tail(formula_cells[i].formula)),
                                      formula_cells[i].sheet)

\* a character a function name may hold after its first letter
IsNameChar(ch) == IsAlpha(ch) \/ IsDigit(ch) \/ ch = "_" \/ ch = "."

\* the name that ends just before the parenthesis at position p of text:
\* the longest run of name characters there
RECURSIVE NameBefore(_, _)
NameBefore(text, p) ==
  IF p > 1 /\ IsNameChar(text[p - 1])
  THEN NameBefore(text, p - 1) \o << text[p - 1] >>
  ELSE << >>

\* the functions a formula calls, in upper case
CalledFunctions(formula) ==
  {UpperText(NameBefore(formula, p)) :
     p \in {q \in 1..Len(formula) :
              /\ formula[q] = "("
              /\ q \notin LiteralPositions(formula)
              /\ NameBefore(formula, q) # << >>
              /\ IsAlpha(NameBefore(formula, q)[1])}}

\* C15: in an emitted program, every function a formula calls that
\* EXCEL_FUNCTION_MAP does not hold is called under the name xl_ followed
\* by its lower-cased name, and a diagnostic names the function.
C15_UnmappedFunctionReported ==
  (pc = "emitted" /\ pipeline = "plain") =>
    \A j \in DOMAIN program :
       \A f \in CalledFunctions(ordered[j].cells[1].formula)
                 \ FunctionMapKeys :
          /\ \E k \in DOMAIN program[j].expr :
                /\ program[j].expr[k].k = "lit"
                /\ program[j].expr[k].t
                     = << "x", "l", "_" >> \o LowerText(f) \o << "(" >>
          /\ \E d \in DOMAIN diagnostics :
                /\ "function" \in DOMAIN diagnostics[d]
                /\ diagnostics[d].function = f

\* C16: every cell the emitted program assigned a fallback to (None, the
\* cached value or 0) is named by a diagnostic.
C16_FallbacksReported ==
  \A j \in DOMAIN store :
     store[j].how # "value" =>
       \E d \in DOMAIN diagnostics : store[j].key \in diagnostics[d].cells

\* C17: an index converted to letters and back is the index again, and an
\* upper-case letter string converted to an index and back is the string
\* again.
C17_ColumnRoundTrip ==
  Len(col_trip) = 2 =>
    col_trip[2] = IF col_arg.kind = "index" THEN col_arg.index
                  ELSE col_arg.letters

\* 52 went to AZ and came back: the last letter is Z, where the index is a
\* multiple of 26
C17_Witness ==
  /\ col_arg.kind = "index"
  /\ col_arg.index = 52
  /\ col_trip = << << "A", "Z" >>, 52 >>

\* the hardcoded cells as classify_cells listed them
ParsedHardcoded == SortBy(hardcoded, RowMajor)

\* the cells some formula reads directly, through a range or through a
\* table column
ReferencedCells == UNION {FullGraph[k] : k \in FormulaKeys}

\* C18: after filter_hardcoded_cells the hardcoded list is the parsed list
\* when delete_unreferenced is false; when it is true it is the parsed
\* list, in its order, without the cells no formula reads directly, through
\* a range or through a table column.
C18_FilterKeepsReferenced ==
  (pipeline = "plain" /\ pc \in {"filtered", "ordered"}) =>
    hardcoded_cells =
      IF delete_unreferenced
      THEN SelectSeq(ParsedHardcoded, LAMBDA key : key \in ReferencedCells)
      ELSE ParsedHardcoded

\* deleting was asked for: an input read through a table column and one
\* read through a range were kept, and an input nothing reads was dropped
C18_Witness ==
  /\ pc = "filtered"
  /\ delete_unreferenced
  /\ \E i, j \in DOMAIN formula_cells :
        \E ref \in Convert(formula_cells[i].sheet, tables,
                           formula_cells[i].formula).tables :
          \E rng \in Convert(formula_cells[j].sheet, tables,
                             formula_cells[j].formula).ranges :
             /\ TableCells(tables, ref) \cap Range(hardcoded_cells) # {}
             /\ ExpandRange(rng) \cap Range(hardcoded_cells) # {}
  /\ hardcoded \ Range(hardcoded_cells) # {}

\* the pattern key group_formulas recorded for a formula cell
KeyOf(fc) == cell_pats[IndexIn(Keys, CellKey(fc))].pattern_key

\* the cells of the vertical groups
VerticalCells ==
  UNION {Range(groups[g].cells) :
           g \in {h \in DOMAIN groups : groups[h].direction = "vertical"}}

\* the formula cells one step before the first or after the last member of
\* a group, along its direction
Neighbours(g) ==
  {fc \in Range(formula_cells) :
     /\ fc.sheet = g.cells[1].sheet
     /\ IF g.direction = "vertical"
        THEN /\ fc.col = g.cells[1].col
             /\ fc.row \in {g.cells[1].row - 1, g.cells[Len(g.cells)].row + 1}
        ELSE /\ fc.row = g.cells[1].row
             /\ ColIdx(fc) \in {ColIdx(g.cells[1]) - 1,
                                ColIdx(g.cells[Len(g.cells)]) + 1}}

\* C19: every group has at least two members of one sheet and one pattern
\* key, in one column at consecutive ascending rows (vertical) or in one
\* row at consecutive ascending columns (horizontal); no cell of the same
\* key stands next to either end of a vertical group, and none that is in
\* no vertical group stands next to either end of a horizontal group.
C19_GroupsAreMaximalRuns ==
  pc = "grouped" =>
    \A g \in DOMAIN groups :
       /\ Len(groups[g].cells) >= 2
       /\ groups[g].direction \in {"vertical", "horizontal"}
       /\ \A j \in DOMAIN groups[g].cells :
             /\ groups[g].cells[j].sheet = groups[g].cells[1].sheet
             /\ KeyOf(groups[g].cells[j]) = KeyOf(groups[g].cells[1])
             /\ IF groups[g].direction = "vertical"
                THEN /\ groups[g].cells[j].col = groups[g].cells[1].col
                     /\ groups[g].cells[j].row
                          = groups[g].cells[1].row + j - 1
                ELSE /\ groups[g].cells[j].row = groups[g].cells[1].row
                     /\ ColIdx(groups[g].cells[j])
                          = ColIdx(groups[g].cells[1]) + j - 1
       /\ \A fc \in Neighbours(groups[g]) :
             KeyOf(fc) = KeyOf(groups[g].cells[1]) =>
               /\ groups[g].direction = "horizontal"
               /\ fc \in VerticalCells

\* a vertical and a horizontal group of one key, the horizontal one next to
\* a cell of the vertical one
C19_Witness ==
  /\ pc = "grouped"
  /\ \E g, h \in DOMAIN groups :
        /\ groups[g].direction = "vertical"
        /\ groups[h].direction = "horizontal"
        /\ \E fc \in Neighbours(groups[h]) :
              /\ fc \in Range(groups[g].cells)
              /\ KeyOf(fc) = KeyOf(groups[h].cells[1])

\* the index of a group member along the direction of its group
MemberIndex(item, j) ==
  IF item.direction = "vertical" THEN item.cells[j].row
  ELSE ColIdx(item.cells[j])

\* C20: the statement emitted for a group is a loop over the compact range
\* from the index of its first member to that of its last, and the cells
\* the loop assigns, taken in order, are the members of the group: none is
\* skipped and no other cell is assigned.
C20_LoopCoversGroup ==
  (pc = "emitted" /\ pipeline = "vectorized") =>
    \A j \in DOMAIN program :
       ordered[j].direction # "single" =>
         /\ program[j].kind \in {"for_r", "for_ci"}
         /\ program[j].loop.compact
         /\ program[j].loop.lo = MemberIndex(ordered[j], 1)
         /\ program[j].loop.stop
              = MemberIndex(ordered[j], Len(ordered[j].cells)) + 1
         /\ [k \in DOMAIN LoopValues(program[j].loop) |->
               TargetAt(program[j], LoopValues(program[j].loop)[k])]
              = [k \in DOMAIN ordered[j].cells |->
                   CellKey(ordered[j].cells[k])]

\* a program with a loop over rows and a loop over columns
C20_Witness ==
  /\ pc = "emitted"
  /\ pipeline = "vectorized"
  /\ \E j, k \in DOMAIN program :
        /\ program[j].kind = "for_r"
        /\ program[k].kind = "for_ci"
        /\ Len(LoopValues(program[j].loop)) >= 2
        /\ Len(LoopValues(program[k].loop)) >= 2

\* the cells of the current sheet that text names at a position where a
\* cell pattern matches and that no identifier character precedes, alone or
\* as the corner of a range; Keep selects among the matches
FreeMatches(text, Keep(_)) ==
  {m \in {MatchRef(text, i, TRUE) :
            i \in {j \in 1..Len(text) : j = 1 \/ ~IsWord(text[j - 1])}} :
     m.ok /\ Keep(m)}

FreeCells(text, sheet, Keep(_)) ==
  UNION {OpusKeys(m, sheet) : m \in FreeMatches(text, Keep)}

\* C21: no reference extract_references returns starts right after a
\* letter, a digit or an underscore, and every dependency
\* build_dependency_graph records is named by the formula at a position
\* that no such character precedes.
C21_NoReferenceInsideName ==
  /\ pc = "grouped" =>
       \A i \in DOMAIN formula_cells :
          \A k \in DOMAIN cell_pats[i].refs :
             cell_pats[i].refs[k].start > 1 =>
               ~IsWord(StripEq(formula_cells[i].formula)
                         [cell_pats[i].refs[k].start - 1])
  /\ (pc = "ordered" /\ pipeline = "offlineopus") =>
       \A i \in DOMAIN formula_cells :
          build_dependency_graph(formula_cells)[OpusKey(formula_cells[i])]
            \subseteq FreeCells(Tail(formula_cells[i].formula),
                                formula_cells[i].sheet, LAMBDA m : TRUE)

\* the cells of the current sheet named by the matches of the cell pattern
\* at any position of text that Keep selects
NamedCells(text, sheet, Keep(_)) ==
  UNION {OpusKeys(m, sheet) :
           m \in {n \in {MatchCell(text, i, TRUE) : i \in 1..Len(text)} :
                    n.ok /\ Keep(n)}}

\* the cells text names only by matches that an opening parenthesis follows
\* directly
CalledOnly(text, sheet) ==
  NamedCells(text, sheet, LAMBDA m : IsAt(text, m.end, "("))
    \ NamedCells(text, sheet, LAMBDA m : ~IsAt(text, m.end, "("))

\* C22: cell-like text directly followed by ( is a function name: a cell
\* that a formula names only in that way is not among the cells the
\* FormulaConverter records for it nor among the dependencies
\* build_dependency_graph records for it.
C22_CalledNameIsNoReference ==
  /\ (pc = "filtered" /\ pipeline = "plain") =>
       \A i \in DOMAIN formula_cells :
          {<< d[1], d[3], col_letter_to_index(d[2]) >> :
             d \in Convert(formula_cells[i].sheet, tables,
                           formula_cells[i].formula).cells}
            \cap CalledOnly(Tail(formula_cells[i].formula),
                            formula_cells[i].sheet) = {}
  /\ (pc = "ordered" /\ pipeline = "offlineopus") =>
       \A i \in DOMAIN formula_cells :
          build_dependency_graph(formula_cells)[OpusKey(formula_cells[i])]
            \cap CalledOnly(Tail(formula_cells[i].formula),
                            formula_cells[i].sheet) = {}

\* the characters of text from position from on, up to position to, that
\* stand outside every string literal: an even number of quotes precedes
\* them since from
OutsideString(text, from, i) ==
  /\ text[i] # Quote
  /\ Cardinality({j \in from..(i - 1) : text[j] = Quote}) % 2 = 0

\* the nesting depth after position i, counted from position from at depth
\* base
DepthAfter(text, from, i, base) ==
  base
    + Cardinality({j \in from..i : OutsideString(text, from, j) /\ text[j] = "("})
    - Cardinality({j \in from..i : OutsideString(text, from, j) /\ text[j] = ")"})

\* the closing parentheses outside strings that return the depth of the
\* call opened at start to zero
Closers(text, start) ==
  {i \in (start + 1)..Len(text) :
     /\ text[i] = ")"
     /\ OutsideString(text, start + 1, i)
     /\ DepthAfter(text, start + 1, i, 1) = 0}

\* the commas of text at depth zero outside strings
Cuts(text) ==
  {i \in 1..Len(text) :
     /\ text[i] = ","
     /\ OutsideString(text, 1, i)
     /\ DepthAfter(text, 1, i, 0) = 0}

\* the pieces of text between one cut and the next, trimmed, in order
Pieces(text) ==
  [k \in 1..(Cardinality(Cuts(text)) + 1) |->
     Strip(SubSeq(text,
                  IF k = 1 THEN 1
                  ELSE 1 + CHOOSE c \in Cuts(text) :
                             Cardinality({d \in Cuts(text) : d < c}) = k - 2,
                  IF k = Cardinality(Cuts(text)) + 1 THEN Len(text)
                  ELSE (CHOOSE c \in Cuts(text) :
                          Cardinality({d \in Cuts(text) : d < c}) = k - 1) - 1))]

\* C23: the parenthesis matched to a call is the first closing one outside
\* strings that returns the depth to zero, and the arguments returned are
\* pieces of the text between depth-zero commas outside strings, in order:
\* nothing is split anywhere else
C23_MatchingTracksDepthAndStrings ==
  /\ (text_arg.fn = "_find_matching_paren" /\ text_out # << >>
        /\ Closers(text_arg.text, text_arg.start) # {})
       => /\ text_out[1] \in Closers(text_arg.text, text_arg.start)
          /\ \A i \in Closers(text_arg.text, text_arg.start) : text_out[1] <= i
  /\ (text_arg.fn = "_split_function_args" /\ text_out # << >>)
       => text_out[1] = SelectSeq(Pieces(text_arg.text), LAMBDA a : a # << >>)

\* F("),") : a parenthesis and a comma inside a string, matched and split
C23_Witness ==
  \/ /\ text_arg.fn = "_find_matching_paren"
     /\ text_arg.text = << "(", Quote, ")", Quote, ")" >>
     /\ text_out = << 5 >>
  \/ /\ text_arg.fn = "_split_function_args"
     /\ text_arg.text = << Quote, ",", Quote, ",", "A" >>
     /\ text_out = << << << Quote, ",", Quote >>, << "A" >> >> >>

\* C29: a text that is not empty is split into as many arguments as it has
\* depth-zero commas outside strings, plus one, and the k-th argument
\* returned is the k-th piece of the text, an empty piece included
C29_SplitKeepsPositions ==
  (text_arg.fn = "_split_function_args" /\ text_out # << >>)
    => /\ Len(text_out[1]) = Cardinality(Cuts(text_arg.text)) + 1
       /\ \A k \in DOMAIN text_out[1] :
            text_out[1][k] = Pieces(text_arg.text)[k]

\* a value is a fraction << p, q >>; << 0, 0 >> is no value
NoValue == << 0, 0 >>

RECURSIVE Gcd(_, _)
Gcd(a, b) == IF b = 0 THEN a ELSE Gcd(b, a % b)

Abs(n) == IF n < 0 THEN 0 - n ELSE n

Fraction(p, q) ==
  IF q = 0 THEN NoValue
  ELSE IF p = 0 THEN << 0, 1 >>
  ELSE << (IF q < 0 THEN 0 - p ELSE p) \div Gcd(Abs(p), Abs(q)),
          Abs(q) \div Gcd(Abs(p), Abs(q)) >>

RECURSIVE IntPower(_, _)
IntPower(a, e) == IF e = 0 THEN 1 ELSE a * IntPower(a, e - 1)

\* the value of a op b; a power is evaluated for the whole exponents up to
\* MaxPower
Arith(op, a, b) ==
  IF a = NoValue \/ b = NoValue THEN NoValue
  ELSE IF op = "+" THEN Fraction(a[1] * b[2] + b[1] * a[2], a[2] * b[2])
  ELSE IF op = "-" THEN Fraction(a[1] * b[2] - b[1] * a[2], a[2] * b[2])
  ELSE IF op = "*" THEN Fraction(a[1] * b[1], a[2] * b[2])
  ELSE IF op = "/" THEN Fraction(a[1] * b[2], a[2] * b[1])
  ELSE IF b[2] = 1 /\ b[1] \in 0..MaxPower
       THEN Fraction(IntPower(a[1], b[1]), IntPower(a[2], b[1]))
  ELSE NoValue

\* what a formula operand denotes in the workbook: n% is n/100
OperandValue(o, v) ==
  IF o.kind = "cell" THEN << v, 1 >>
  ELSE IF o.kind = "num" THEN << o.n, 1 >>
  ELSE Fraction(o.n, 100)

\* the characters of a translated expression, a variable written "v"
RECURSIVE PyChars(_)
PyChars(out) ==
  IF out = << >> THEN << >>
  ELSE (IF Head(out).k = "lit" THEN Head(out).t ELSE << "v" >>)
         \o PyChars(Tail(out))

\* the tokens of a Python expression of numbers, variables and operators
RECURSIVE PyTokens(_, _, _)
PyTokens(chars, i, toks) ==
  IF i > Len(chars) THEN toks
  ELSE IF chars[i] = " " THEN PyTokens(chars, i + 1, toks)
  ELSE IF IsDigit(chars[i])
  THEN IF toks # << >> /\ toks[Len(toks)].kind = "num" /\ chars[i - 1] # " "
       THEN PyTokens(chars, i + 1,
                     [toks EXCEPT ![Len(toks)].n =
                                    10 * @ + ParseInt(<< chars[i] >>)])
       ELSE PyTokens(chars, i + 1,
                     Append(toks, [kind |-> "num", n |-> ParseInt(<< chars[i] >>),
                                   op |-> ""]))
  ELSE IF chars[i] = "v"
  THEN PyTokens(chars, i + 1, Append(toks, [kind |-> "var", n |-> 0, op |-> ""]))
  ELSE IF chars[i] = "*" /\ IsAt(chars, i + 1, "*")
  THEN PyTokens(chars, i + 2, Append(toks, [kind |-> "op", n |-> 0, op |-> "^"]))
  ELSE PyTokens(chars, i + 1,
                Append(toks, [kind |-> "op", n |-> 0, op |-> chars[i]]))

\* the last (or first) position of toks that holds one of the operators
LastOp(toks, ops) ==
  IF \E k \in DOMAIN toks : toks[k].kind = "op" /\ toks[k].op \in ops
  THEN CHOOSE k \in DOMAIN toks :
         /\ toks[k].kind = "op" /\ toks[k].op \in ops
         /\ \A j \in DOMAIN toks :
              (toks[j].kind = "op" /\ toks[j].op \in ops) => j <= k
  ELSE 0

FirstOp(toks, ops) ==
  IF \E k \in DOMAIN toks : toks[k].kind = "op" /\ toks[k].op \in ops
  THEN CHOOSE k \in DOMAIN toks :
         /\ toks[k].kind = "op" /\ toks[k].op \in ops
         /\ \A j \in DOMAIN toks :
              (toks[j].kind = "op" /\ toks[j].op \in ops) => k <= j
  ELSE 0

\* the value Python gives an expression without parentheses: + and - bind
\* weakest and group to the left, then * and / which group to the left,
\* then ** which groups to the right
PyAtom(toks, v) ==
  IF Len(toks) # 1 THEN NoValue
  ELSE IF toks[1].kind = "num" THEN << toks[1].n, 1 >>
  ELSE IF toks[1].kind = "var" THEN << v, 1 >>
  ELSE NoValue

RECURSIVE PyPower(_, _)
PyPower(toks, v) ==
  IF FirstOp(toks, {"^"}) = 0 THEN PyAtom(toks, v)
  ELSE Arith("^", PyAtom(SubSeq(toks, 1, FirstOp(toks, {"^"}) - 1), v),
             PyPower(SubSeq(toks, FirstOp(toks, {"^"}) + 1, Len(toks)), v))

RECURSIVE PyTerm(_, _)
PyTerm(toks, v) ==
  IF LastOp(toks, {"*", "/"}) = 0 THEN PyPower(toks, v)
  ELSE Arith(toks[LastOp(toks, {"*", "/"})].op,
             PyTerm(SubSeq(toks, 1, LastOp(toks, {"*", "/"}) - 1), v),
             PyPower(SubSeq(toks, LastOp(toks, {"*", "/"}) + 1, Len(toks)), v))

RECURSIVE PySum(_, _)
PySum(toks, v) ==
  IF LastOp(toks, {"+", "-"}) = 0 THEN PyTerm(toks, v)
  ELSE Arith(toks[LastOp(toks, {"+", "-"})].op,
             PySum(SubSeq(toks, 1, LastOp(toks, {"+", "-"}) - 1), v),
             PyTerm(SubSeq(toks, LastOp(toks, {"+", "-"}) + 1, Len(toks)), v))

PyValue(out, v) == PySum(PyTokens(PyChars(out), 1, << >>), v)

\* what the formula of a call denotes in the workbook
FormulaValue(a) ==
  Arith(a.op, OperandValue(a.left, a.value), OperandValue(a.right, a.value))

\* C24: the translation of a formula with a percentage n% has the value the
\* formula has with n/100 in its place, whatever operator stands next to it
C24_PercentIsHundredth ==
  (text_arg.fn = "convert" /\ text_out # << >>
     /\ FormulaValue(text_arg) # NoValue
     /\ PyValue(text_out[1].out, text_arg.value) # NoValue)
    => PyValue(text_out[1].out, text_arg.value) = FormulaValue(text_arg)

\* C30: two distinct cells get two distinct variable names and two distinct
\* ranges get two distinct variable names, whatever the sheets are called
C30_DistinctNames ==
  (text_arg.fn \in {"cell_to_var_name", "range_to_var_name"}
     /\ text_out # << >> /\ text_arg.a # text_arg.b)
    => text_out[1] # text_out[2]

\* the formula cells a cell reads, directly or through other formula cells
RECURSIVE ReadsClosure(_, _)
ReadsClosure(seen, reads) ==
  IF UNION {reads[k] \cap DOMAIN reads : k \in seen} \subseteq seen THEN seen
  ELSE ReadsClosure(seen \cup UNION {reads[k] \cap DOMAIN reads : k \in seen},
                    reads)

DependsOn(u, v, reads) == v \in ReadsClosure(reads[u] \cap DOMAIN reads, reads)

\* C25: for every edge u -> v (formula cell v reads formula cell u) such
\* that u does not depend on v, directly or transitively, u precedes v in
\* the returned order, also when the workbook has a cycle somewhere and u or
\* v was appended after the queue ran empty
C25_AcyclicEdgesHonoured ==
  (pc = "ordered" /\ pipeline \in {"plain", "offlineopus"}) =>
    \E reads \in {IF pipeline = "plain" THEN PlainGraph ELSE OpusGraph} :
       \A v \in FormulaKeys :
          \A u \in reads[v] \cap FormulaKeys :
             ~DependsOn(u, v, reads) => Precedes(u, v)

\* the formula cells that lie on a cycle of reads, and those that depend,
\* directly or transitively, on one that does
OnCycle(reads) == {k \in DOMAIN reads : DependsOn(k, k, reads)}

CycleBound(reads) ==
  {k \in DOMAIN reads :
     \/ k \in OnCycle(reads)
     \/ \E c \in OnCycle(reads) : DependsOn(k, c, reads)}

\* the cells appended after the queue ran empty
FallbackKeys == {CellKey(fc) : fc \in Range(CellsOf(circular))}

\* C26: cells are appended after the queue ran empty exactly when formula
\* cells read each other in a cycle, directly, through a range or through a
\* table column, and every cell appended lies on such a cycle or depends on
\* a cell that does
C26_FallbackIsCycleBound ==
  (pc = "ordered" /\ pipeline \in {"plain", "offlineopus"}) =>
    /\ FallbackKeys = {} <=> OnCycle(FullGraph) = {}
    /\ FallbackKeys \subseteq CycleBound(FullGraph)

\* C27: when no formula cell reads itself through other formula cells,
\* order_items dequeues every group and every single: nothing is appended
\* as a circular leftover
C27_GroupingAddsNoCycle ==
  (pc = "ordered" /\ pipeline = "vectorized") =>
    \E reads \in {PlainGraph} : Acyclic(reads) => circular = << >>

\* the (cell_address, formula) pairs of the cells of a group
MemberPairs(g) ==
  [j \in DOMAIN g.cells |->
     << g.cells[j].col \o IntText(g.cells[j].row), g.cells[j].formula >>]

\* C28: expanding the row of a group, that is shifting the relative
\* references of the formula of its first cell by each member's offset,
\* gives back the address and the formula of every member of the group
C28_ExpandRestoresGroup ==
  (text_arg.fn = "_expand_group" /\ text_out # << >>) =>
    \A g \in DOMAIN groups : text_out[1][g] = MemberPairs(groups[g])

====
